---- MODULE Spec2Model ----
(***************************************************************************)
(* Model of the cafe ordering backend (server/index.js, kept here as       *)
(* src/unnamed/part_000), of its message service modules                   *)
(* (src/server/whatsappService.js, src/server/smsService.js) and of the    *)
(* kitchen dashboard client (src/src/components/DailyReport.tsx,           *)
(* KitchenDashboard part).                                                 *)
(*                                                                         *)
(* Strings that the code inspects character by character (phone numbers)   *)
(* are sequences of one-character strings.  JavaScript null / undefined    *)
(* is NullNum for numbers, NullStr for phone strings and "" for the other  *)
(* strings whose only use is a truthiness test.                            *)
(***************************************************************************)
EXTENDS Integers, Sequences, FiniteSets, Bags, TLC

VARIABLES
  clock,          \* Date.now()
  useMongo,       \* useMongo && mongoDb
  twilioClient,   \* twilioClient && twilioFrom are configured
  startup,        \* the connection attempt, the 5 s wait of startServer and the process
  procEnv,        \* process.env: NODE_ENV and DEBUG_OTPS
  whatsappSettings, \* let whatsappSettings of whatsappService.js
  smsSettings,    \* let smsSettings of smsService.js
  sending,        \* per service module, the sends suspended at the provider call
  orders,         \* const orders = []
  bills,          \* const bills = []
  billedAt,       \* history: per stored bill, the order it was generated for and that order's status then
  mongoOrders,    \* collection "orders", _id -> document
  mongoBills,     \* collection "bills", _id -> document
  mongoCustomers, \* collection "customers", phone -> document
  pending,        \* requests suspended at an await on the store
  otps,           \* const otps = {}  (phone -> {code, createdAt})
  otpSeen,        \* history: per phone, how the outstanding code was requested and used
  notifying,      \* fire-and-forget notification / customer upsert tasks
  dash,           \* per dashboard client: React state of KitchenDashboard
  gen,            \* running generateBillForOrder calls
  net,            \* bag of the other requests of the dashboards in flight
  last            \* the step taken last and the response it sent

ordVars  == <<orders, bills, billedAt, mongoOrders, mongoBills, pending>>
otpVars  == <<otps, otpSeen, notifying, mongoCustomers>>
dashVars == <<dash, gen, net>>
svcVars  == <<whatsappSettings, smsSettings, sending>>
envVars  == <<useMongo, twilioClient, startup, procEnv, svcVars>>
vars     == <<clock, envVars, ordVars, otpVars, dashVars, last>>

-----------------------------------------------------------------------------
(* Bounds of the model.                                                    *)
MaxClock   == 2   \* Date.now() ranges over 1..MaxClock
MaxOrders  == 2   \* stored orders
MaxBills   == 2   \* stored bills
MaxPending == 1   \* requests suspended on the store at one time
MaxPatches == 2   \* PATCH requests suspended on the store at one time
MaxTasks   == 1   \* fire-and-forget tasks in flight at one time on the OTP side
MaxGen     == 1   \* generateBillForOrder calls running at one time
MaxClients == 2   \* kitchen dashboards open at one time
MaxCalls   == 2   \* requests of the dashboards in flight at one time
MaxCustomerCalls == 2   \* calls on the customers collection in flight at one time

NullNum == -1            \* null / undefined where a number is expected
NullStr == <<"null">>    \* null / undefined where a phone string is expected

Range(f)  == {f[i] : i \in DOMAIN f}

\* JavaScript `x || d` on numbers: 0, null and undefined are falsy.
OrNum(x, d) == IF x = NullNum \/ x = 0 THEN d ELSE x
\* JavaScript `x || d` on strings: "" , null and undefined are falsy.
OrStr(x, d) == IF x = "" THEN d ELSE x

-----------------------------------------------------------------------------
(* Phone normalization and validation.                                     *)
Digits == {"0", "1", "2", "3", "4", "5", "6", "7", "8", "9"}
WhatsappPrefix == <<"w", "h", "a", "t", "s", "a", "p", "p", ":">>
DefaultCountryCode == <<"+", "1">>   \* process.env.DEFAULT_COUNTRY_CODE || '+1'

StartsWith(s, p) == Len(s) >= Len(p) /\ SubSeq(s, 1, Len(p)) = p

\* A character that cannot be written in a string of this notation is the
\* string of its escape, a backslash, u and four hexadecimal digits (in either
\* case).
\* The space separators above U+00FF and the separators U+2028 and U+2029:
WideSpace ==
  { "\\u1680", "\\u2000", "\\u2001", "\\u2002", "\\u2003", "\\u2004",
    "\\u2005", "\\u2006", "\\u2007", "\\u2008", "\\u2009", "\\u200a",
    "\\u2028", "\\u2029", "\\u202f", "\\u205f", "\\u3000",
    "\\u200A", "\\u202F", "\\u205F" }
\* the WhiteSpace and LineTerminator characters String.prototype.trim strips:
\* TAB, LF, VT, FF, CR, SP, NBSP, ZWNBSP and the wide ones
WhiteSpace == {"\t", "\n", "", "\f", "\r", " ", " ", "﻿"} \cup WideSpace
\* String.prototype.trimStart, trimEnd and trim
RECURSIVE TrimLeft(_)
TrimLeft(s) == IF s # <<>> /\ Head(s) \in WhiteSpace THEN TrimLeft(Tail(s)) ELSE s
RECURSIVE TrimRight(_)
TrimRight(s) ==
  IF s # <<>> /\ s[Len(s)] \in WhiteSpace THEN TrimRight(SubSeq(s, 1, Len(s) - 1)) ELSE s
Trim(s) == TrimRight(TrimLeft(s))

\* v.replace(/^0+/, '')
RECURSIVE StripLeadingZeros(_)
StripLeadingZeros(s) ==
  IF s # <<>> /\ Head(s) = "0" THEN StripLeadingZeros(Tail(s)) ELSE s

IsDigitOrPlus(ch) == ch \in Digits \cup {"+"}
IsDigit(ch) == ch \in Digits

\* variants the code does not have: a country code without its '+', leading
\* zeros kept
ApplyCountryCodeNoPlus(v) ==
  IF StartsWith(v, <<"+">>) THEN v ELSE Tail(DefaultCountryCode) \o StripLeadingZeros(v)
ApplyCountryCodeKeepZeros(v) ==
  IF StartsWith(v, <<"+">>) THEN v ELSE DefaultCountryCode \o v

\* the default country code is applied when v does not start with '+'
ApplyCountryCode(v) ==
  IF StartsWith(v, <<"+">>) THEN v ELSE DefaultCountryCode \o StripLeadingZeros(v)

normalizePhone(raw) ==
  IF raw = NullStr \/ raw = <<>> THEN NullStr
  ELSE LET v1 == Trim(raw)
           v2 == IF StartsWith(v1, WhatsappPrefix)
                 THEN SubSeq(v1, Len(WhatsappPrefix) + 1, Len(v1)) ELSE v1
           v3 == SelectSeq(v2, IsDigitOrPlus)
       IN  ApplyCountryCode(v3)

MinPhoneDigits == 8
\* a check the code does not make: the digits of the raw string are counted
isValidPhoneRawDigits(raw) ==
  /\ raw # NullStr /\ raw # <<>>
  /\ Len(SelectSeq(raw, IsDigit)) >= MinPhoneDigits
isValidPhone(raw) ==
  LET n == normalizePhone(raw)
  IN  /\ n # NullStr
      /\ Len(SelectSeq(n, IsDigit)) >= MinPhoneDigits

-----------------------------------------------------------------------------
(* Orders and bills: request bodies.                                       *)
Statuses == {"PENDING", "PREPARING", "READY", "BILL_REQUESTED", "COMPLETED"}
\* what a PATCH body may carry as status: "" is an absent status
PatchStatuses == Statuses \cup {"", "CANCELLED"}

TransitionTable ==
  { <<"PENDING", "PREPARING">>, <<"PREPARING", "READY">>,
    <<"READY", "BILL_REQUESTED">>, <<"READY", "COMPLETED">>,
    <<"BILL_REQUESTED", "COMPLETED">> }

Latte == [id |-> "m1", name |-> "Latte", price |-> 120, quantity |-> 2]
Scone == [id |-> "m2", name |-> "Scone", price |-> 150, quantity |-> 1]

\* the items member of a JSON body: absent, not an array, or an array
NoItems     == [t |-> "undefined"]
StringItems == [t |-> "string"]
ArrayOf(v)  == [t |-> "array", v |-> v]

\* !items || !Array.isArray(items) || items.length === 0
InvalidItemsAllowEmpty(items) == items.t # "array"
InvalidItems(items) == items.t # "array" \/ items.v = <<>>

RECURSIVE ItemsTotal(_)
\* items.reduce((s, it) => s + (it.price || 0) * (it.quantity || 1), 0)
ItemsTotal(v) ==
  IF v = <<>> THEN 0
  ELSE ItemsTotal(SubSeq(v, 1, Len(v) - 1))
       + OrNum(v[Len(v)].price, 0) * OrNum(v[Len(v)].quantity, 1)

OrderBodies ==
  { [tableNumber |-> NullNum, customerName |-> "", items |-> NoItems, totalAmount |-> NullNum],
    [tableNumber |-> 4, customerName |-> "Ann", items |-> StringItems, totalAmount |-> 240],
    [tableNumber |-> 4, customerName |-> "Ann", items |-> ArrayOf(<<>>), totalAmount |-> NullNum],
    [tableNumber |-> 4, customerName |-> "Ann", items |-> ArrayOf(<<Latte>>), totalAmount |-> NullNum],
    [tableNumber |-> 0, customerName |-> "", items |-> ArrayOf(<<Latte, Scone>>), totalAmount |-> 0] }

\* const order = {id: `ORD-${Date.now()}`, ..., createdAt: Date.now()}: now is
\* what the first Date.now() gives and later what the second gives
newOrder(body, now, later) ==
  [ id           |-> <<"ORD", now>>,
    tableNumber  |-> OrNum(body.tableNumber, NullNum),
    customerName |-> OrStr(body.customerName, "Guest"),
    items        |-> body.items.v,
    totalAmount  |-> OrNum(body.totalAmount, ItemsTotal(body.items.v)),
    status       |-> "PENDING",
    createdAt    |-> later,
    updatedAt    |-> NullNum ]

\* halves rounded down, which Math.round does not do
RoundPctTiesDown(subtotal, pct) == (subtotal * pct + 49) \div 100
\* Math.round(subtotal * rate) for a rate of pct/100 and subtotal >= 0
RoundPct(subtotal, pct) == (subtotal * pct + 50) \div 100
TaxPct == 5
ServicePct == 2

\* raw phones used in request bodies (see also the OTP part)
Local0455  == <<"0", "4", "5", "5", "1", "2", "3", "4", "5", "6">>
Plus1455   == <<"+", "1", "4", "5", "5", "1", "2", "3", "4", "5", "6">>
Spaced1455 == <<" ", "4", "5", "5", "-", "1", "2", "3", "-", "4", "5", "6">>
WaPlus1455 == WhatsappPrefix \o Plus1455
Plus4477   == <<"+", "4", "4", "7", "7", "0", "0", "9", "0", "0">>
ShortPhone == <<"1", "2", "3", "4", "5">>
EmptyPhone == <<>>

BillBodies ==
  { [tableNumber |-> 4, customerName |-> "Ann", customerPhone |-> NullStr, items |-> NoItems],
    [tableNumber |-> 4, customerName |-> "Ann", customerPhone |-> Local0455, items |-> StringItems],
    [tableNumber |-> 4, customerName |-> "Ann", customerPhone |-> Local0455, items |-> ArrayOf(<<>>)],
    [tableNumber |-> 4, customerName |-> "Ann", customerPhone |-> ShortPhone, items |-> ArrayOf(<<Latte>>)],
    [tableNumber |-> 4, customerName |-> "Ann", customerPhone |-> Local0455, items |-> ArrayOf(<<Latte>>)],
    [tableNumber |-> 0, customerName |-> "", customerPhone |-> EmptyPhone, items |-> ArrayOf(<<Scone>>)] }

\* if (customerPhone) { if (!isValidPhone(customerPhone)) return 400 ... }
PhonePresent(p) == p # NullStr /\ p # <<>>
BillPhoneRejected(p) == PhonePresent(p) /\ ~isValidPhone(p)

\* const bill = {id: `BILL-${Date.now()}`, ..., createdAt: Date.now()}: now is
\* what the first Date.now() gives and later what the second gives
newBill(body, now, later) ==
  LET subtotal == ItemsTotal(body.items.v)
      tax      == RoundPct(subtotal, TaxPct)
      service  == RoundPct(subtotal, ServicePct)
  IN  [ id            |-> <<"BILL", now>>,
        tableNumber   |-> OrNum(body.tableNumber, NullNum),
        customerName  |-> OrStr(body.customerName, "Guest"),
        customerPhone |-> IF PhonePresent(body.customerPhone)
                          THEN normalizePhone(body.customerPhone) ELSE NullStr,
        items         |-> body.items.v,
        subtotal      |-> subtotal,
        tax           |-> tax,
        service       |-> service,
        total         |-> subtotal + tax + service,
        createdAt     |-> later ]

\* orders.findIndex((o) => o.id === id); 0 stands for -1
findIndex(list, id) ==
  IF \E i \in DOMAIN list : list[i].id = id
  THEN CHOOSE i \in DOMAIN list :
         list[i].id = id /\ \A j \in DOMAIN list : list[j].id = id => i <= j
  ELSE 0

\* the status the server holds for an order id ("" when it holds no such order)
ServerStatus(id) ==
  IF findIndex(orders, id) = 0 THEN "" ELSE orders[findIndex(orders, id)].status

NoOrderId == <<"NONE", 0>>

-----------------------------------------------------------------------------
(* The server's order and bill handlers.                                   *)

Tick ==
  /\ clock < MaxClock
  /\ clock' = clock + 1
  /\ last' = [op |-> "tick", code |-> 0, message |-> ""]
  /\ UNCHANGED <<envVars, ordVars, otpVars, dashVars>>

\* What a second Date.now() of a handler gives after a first one gave clock,
\* with no await between the two: the same millisecond or the next one
SecondRead == {t \in {clock, clock + 1} : t = clock \/ t <= MaxClock}
\* the second read falls in the millisecond of the first
SameRead == {clock}

\* updateOne({_id: doc.id}, {$set: {...doc}}, {upsert: true}) for an order:
\* the fields of doc are written, a field the stored document has and doc
\* lacks (updatedAt) stays
MongoSetOrder(coll, doc) ==
  LET merged == IF doc.id \in DOMAIN coll /\ doc.updatedAt = NullNum
                THEN [doc EXCEPT !.updatedAt = coll[doc.id].updatedAt]
                ELSE doc
  IN  [k \in DOMAIN coll \cup {doc.id} |-> IF k = doc.id THEN merged ELSE coll[k]]

MongoSetBill(coll, doc) ==
  [k \in DOMAIN coll \cup {doc.id} |-> IF k = doc.id THEN doc ELSE coll[k]]

\* app.post("/orders"): validation
OrderRejected(body) == InvalidItems(body.items)

\* Calls in flight are told apart by a number: the least one that no call in
\* flight of the collection S bears
FreshCall(S) ==
  CHOOSE n \in 1..(Cardinality(S) + 1) :
    /\ \A x \in S : x.call # n
    /\ \A m \in 1..(n - 1) : \E x \in S : x.call = m

\* app.post("/orders")
PostOrders(body, later) ==
  /\ later \in SecondRead
  /\ IF OrderRejected(body)
     THEN /\ last' = [op |-> "POST /orders", code |-> 400, message |-> "No items in order"]
          /\ UNCHANGED <<clock, ordVars>>
     ELSE /\ Len(orders) < MaxOrders
          /\ LET order == newOrder(body, clock, later)
               IN  /\ clock' = later
                   /\ orders' = Append(orders, order)
                   /\ IF useMongo
                      THEN /\ Cardinality(pending) < MaxPending
                           /\ pending' = pending \cup {[kind |-> "putOrder", call |-> FreshCall(pending),
                                              stage |-> "sent", doc |-> order]}
                           /\ last' = [op |-> "POST /orders", code |-> 0, message |-> ""]
                      ELSE /\ pending' = pending
                           /\ last' = [op |-> "POST /orders", code |-> 200, message |-> ""]
          /\ UNCHANGED <<bills, billedAt, mongoOrders, mongoBills>>
  /\ UNCHANGED <<envVars, otpVars, dashVars>>

\* the store executes the updateOne of a POST /orders, or throws; the handler
\* is still suspended at its await
PutOrderExec(op, fails) ==
  /\ op \in pending /\ op.kind = "putOrder" /\ op.stage = "sent"
  /\ mongoOrders' = IF fails THEN mongoOrders ELSE MongoSetOrder(mongoOrders, op.doc)
  /\ pending' = (pending \ {op}) \cup {[op EXCEPT !.stage = "returned"]}
  /\ last' = [op |-> "store updateOne", code |-> 0,
              message |-> IF fails THEN "failed" ELSE "stored"]
  /\ UNCHANGED <<orders, bills, billedAt, mongoBills>>
  /\ UNCHANGED <<clock, envVars, otpVars, dashVars>>

\* app.post("/orders") after its await: the response, the same after an error
\* of the store, which the catch only logs
PutOrderDone(op) ==
  /\ op \in pending /\ op.kind = "putOrder" /\ op.stage = "returned"
  /\ pending' = pending \ {op}
  /\ last' = [op |-> "POST /orders", code |-> 200, message |-> ""]
  /\ UNCHANGED <<orders, bills, billedAt, mongoOrders, mongoBills>>
  /\ UNCHANGED <<clock, envVars, otpVars, dashVars>>

\* a validation the code does not have: only the five lifecycle states are written
PatchWriteKnownOnly(o, status, now) ==
  IF status \in Statuses THEN [o EXCEPT !.status = status, !.updatedAt = now] ELSE o
\* if (status) { orders[idx].status = status; orders[idx].updatedAt = now; }
PatchWrite(o, status, now) ==
  IF status # "" THEN [o EXCEPT !.status = status, !.updatedAt = now] ELSE o

\* the in-memory part of app.patch("/orders/:id")
PatchMemory(list, id, status, now) ==
  LET idx == findIndex(list, id)
  IN  IF idx # 0 THEN [list EXCEPT ![idx] = PatchWrite(@, status, now)] ELSE list

\* res.status(404).json({success: false, message: "Order not found"}) when
\* updated is null, res.json({success: true, order: updated}) otherwise
PatchResponse(id, status, updated) ==
  IF updated.t = "none"
  THEN [op |-> "PATCH /orders/:id", code |-> 404, message |-> "Order not found",
        id |-> id, given |-> status]
  ELSE [op |-> "PATCH /orders/:id", code |-> 200, message |-> "",
        id |-> id, given |-> status, order |-> updated.o]

\* app.patch("/orders/:id") up to its response (in-memory stores) or up to
\* its await on the store
PatchOrders(id, status) ==
  LET idx == findIndex(orders, id)
      mem == PatchMemory(orders, id, status, clock)
  IN  /\ orders' = mem
      /\ IF useMongo
         THEN /\ Cardinality({p \in pending : p.kind = "patch"}) < MaxPatches
              /\ pending' = pending \cup
                   {[ kind |-> "patch", call |-> FreshCall(pending), id |-> id, status |-> status, now |-> clock,
                      idx |-> idx, stage |-> "sent",
                      ref |-> IF idx # 0 THEN [t |-> "live"] ELSE [t |-> "none"],
                      result |-> [t |-> "none"] ]}
              /\ last' = [op |-> "PATCH /orders/:id", code |-> 0, message |-> "",
                          id |-> id, given |-> status]
         ELSE /\ pending' = pending
              /\ last' = PatchResponse(id, status,
                           IF idx # 0 THEN [t |-> "obj", o |-> mem[idx]] ELSE [t |-> "none"])
      /\ UNCHANGED <<bills, billedAt, mongoOrders, mongoBills>>
      /\ UNCHANGED <<clock, envVars, otpVars, dashVars>>

\* an update the code does not make: the stored status is left alone
MongoPatchDocKeepStatus(d, status, now) == [d EXCEPT !.updatedAt = now]
\* findOneAndUpdate({_id: id}, {$set: setDoc}, {upsert: false, returnDocument: 'after'})
\* with setDoc = {updatedAt: now} and, when status is given, status
MongoPatchDoc(d, status, now) ==
  [d EXCEPT !.updatedAt = now, !.status = IF status # "" THEN status ELSE @]

\* the store executes the update of a suspended PATCH, or fails
PatchExec(op, fails) ==
  /\ op \in pending /\ op.kind = "patch" /\ op.stage = "sent"
  /\ IF fails
     THEN /\ mongoOrders' = mongoOrders
          /\ pending' = (pending \ {op}) \cup
               {[op EXCEPT !.stage = "returned", !.result = [t |-> "error"]]}
     ELSE IF op.id \in DOMAIN mongoOrders
     THEN LET d == MongoPatchDoc(mongoOrders[op.id], op.status, op.now)
          IN  /\ mongoOrders' = [mongoOrders EXCEPT ![op.id] = d]
              /\ pending' = (pending \ {op}) \cup
                   {[op EXCEPT !.stage = "returned", !.result = [t |-> "doc", d |-> d]]}
     ELSE /\ mongoOrders' = mongoOrders
          /\ pending' = (pending \ {op}) \cup
               {[op EXCEPT !.stage = "returned", !.result = [t |-> "null"]]}
  /\ last' = [op |-> "store findOneAndUpdate", code |-> 0, message |-> ""]
  /\ UNCHANGED <<orders, bills, billedAt, mongoBills>>
  /\ UNCHANGED <<clock, envVars, otpVars, dashVars>>

\* updated = { id: d._id, ..., createdAt: d.createdAt || now, updatedAt: d.updatedAt || now }
UpdatedFromDoc(d, now) ==
  [d EXCEPT !.createdAt = OrNum(d.createdAt, now), !.updatedAt = OrNum(d.updatedAt, now)]

\* a suspended handler that holds a reference to orders[idx] keeps the old
\* object when the array slot is given a new one
FreezeRef(op, idx, old) ==
  IF op.kind = "patch" /\ op.idx = idx /\ op.ref.t = "live"
  THEN [op EXCEPT !.ref = [t |-> "obj", o |-> old]] ELSE op

\* the rest of app.patch("/orders/:id") after the await
PatchDeliver(op) ==
  /\ op \in pending /\ op.kind = "patch" /\ op.stage = "returned"
  /\ IF op.result.t = "doc"
     THEN LET updated == UpdatedFromDoc(op.result.d, op.now)
          IN  /\ IF op.idx # 0
                 THEN /\ orders' = [orders EXCEPT ![op.idx] = updated]
                      /\ pending' = {FreezeRef(p, op.idx, orders[op.idx]) : p \in pending \ {op}}
                 ELSE /\ orders' = orders
                      /\ pending' = pending \ {op}
              /\ last' = PatchResponse(op.id, op.status, [t |-> "obj", o |-> updated])
     ELSE /\ orders' = orders
          /\ pending' = pending \ {op}
          /\ last' = PatchResponse(op.id, op.status,
                       IF op.ref.t = "live" THEN [t |-> "obj", o |-> orders[op.idx]]
                       ELSE op.ref)
  /\ UNCHANGED <<bills, billedAt, mongoOrders, mongoBills>>
  /\ UNCHANGED <<clock, envVars, otpVars, dashVars>>

\* app.post("/bills"): validation, in the order of the code
BillRejection(body) ==
  IF InvalidItems(body.items) THEN "No items to bill"
  ELSE IF BillPhoneRejected(body.customerPhone) THEN "invalid phone format"
  ELSE ""

\* app.post("/bills") for an accepted body, up to its response or its await;
\* forOrder names the order the caller generates the bill for (history only)
StoreBill(body, forOrder, later) ==
  LET bill == newBill(body, clock, later)
  IN  /\ later \in SecondRead
      /\ Len(bills) < MaxBills
      /\ clock' = later
      /\ bills' = Append(bills, bill)
      /\ billedAt' = Append(billedAt, [order |-> forOrder, status |-> ServerStatus(forOrder)])
      /\ IF useMongo
         THEN /\ Cardinality(pending) < MaxPending
              /\ pending' = pending \cup {[kind |-> "putBill", call |-> FreshCall(pending),
                                   stage |-> "sent", doc |-> bill]}
         ELSE pending' = pending
      /\ UNCHANGED <<mongoOrders, mongoBills>>

PostBills(body, later) ==
  /\ IF BillRejection(body) # ""
     THEN /\ last' = [op |-> "POST /bills", code |-> 400, message |-> BillRejection(body),
                      phone |-> body.customerPhone]
          /\ UNCHANGED <<clock, ordVars>>
     ELSE /\ StoreBill(body, NoOrderId, later)
          /\ orders' = orders
          /\ last' = [op |-> "POST /bills", code |-> IF useMongo THEN 0 ELSE 200, message |-> "",
                      phone |-> body.customerPhone]
  /\ UNCHANGED <<envVars, otpVars, dashVars>>

\* the store executes the updateOne of a POST /bills, or throws; the handler
\* is still suspended at its await
PutBillExec(op, fails) ==
  /\ op \in pending /\ op.kind = "putBill" /\ op.stage = "sent"
  /\ mongoBills' = IF fails THEN mongoBills ELSE MongoSetBill(mongoBills, op.doc)
  /\ pending' = (pending \ {op}) \cup {[op EXCEPT !.stage = "returned"]}
  /\ last' = [op |-> "store updateOne", code |-> 0,
              message |-> IF fails THEN "failed" ELSE "stored"]
  /\ UNCHANGED <<orders, bills, billedAt, mongoOrders>>
  /\ UNCHANGED <<clock, envVars, otpVars, dashVars>>

\* app.post("/bills") after its await: the response with the bill, the same
\* after an error of the store, which the catch only logs
PutBillDone(op) ==
  /\ op \in pending /\ op.kind = "putBill" /\ op.stage = "returned"
  /\ pending' = pending \ {op}
  /\ last' = [op |-> "POST /bills", code |-> 200, message |-> ""]
  /\ UNCHANGED <<orders, bills, billedAt, mongoOrders, mongoBills>>
  /\ UNCHANGED <<clock, envVars, otpVars, dashVars>>

\* ids a PATCH may name: the ids of the stored orders and one that matches none
UnknownOrderId == <<"ORD", 0>>
PatchIds == {o.id : o \in Range(orders)} \cup DOMAIN mongoOrders \cup {UnknownOrderId}

EmptyFn == [x \in {} |-> x]

-----------------------------------------------------------------------------
(* The kitchen dashboard (KitchenDashboard in DailyReport.tsx).  The       *)
(* dashboard steps run against a server with in-memory stores, whose       *)
(* handlers answer without suspending; each function of the dashboard that *)
(* awaits a fetch is a step up to the fetch, a step in which the fetch     *)
(* settles and a step that resumes the function.                           *)
Clients == 1..MaxClients

NoOrder == [id |-> NoOrderId]

\* useState initial values of KitchenDashboard
DashInit == [orders |-> <<>>, billOrder |-> NoOrder, billOpen |-> FALSE, billSubmitting |-> FALSE]

\* type Order of the dashboard: the members of a fetched order it reads
\* (timestamp is the order's createdAt)
AsDashOrder(o) ==
  [id |-> o.id, tableNumber |-> o.tableNumber, customerName |-> o.customerName,
   items |-> o.items, totalAmount |-> o.totalAmount, status |-> o.status,
   timestamp |-> o.createdAt]

\* what fetch does with a request of the dashboard: the server answers it with
\* a 2xx status, with another status, or the fetch rejects
FetchOutcomes == {"ok", "not ok", "rejected"}

\* fetchLiveOrders: the list GET /orders answers without a filter (in-memory
\* stores), [] when the response is not ok and [] from the catch
fetchLiveOrders(outcome) ==
  IF outcome = "ok" THEN [i \in DOMAIN orders |-> AsDashOrder(orders[i])] ELSE <<>>

\* a request of a dashboard in flight and the call that awaits it
DashCall(c, kind, from, id, status) ==
  [client |-> c, kind |-> kind, from |-> from, id |-> id, status |-> status,
   stage |-> "sent", resp |-> <<>>]
LoadCall(c, from) == DashCall(c, "load", from, NoOrderId, "")
CallsInFlight == BagToSet(net)
CallRoom == BagCardinality(net) + Len(gen) < MaxCalls
Answered(r, resp) == (net (-) SetToBag({r})) (+) SetToBag({[r EXCEPT !.stage = "answered", !.resp = resp]})

\* loadOrders, called by the mount effect, the 5 s interval and the Refresh
\* button: up to the fetch of fetchLiveOrders
loadOrders(c) ==
  /\ ~useMongo
  /\ CallRoom
  /\ net' = net (+) SetToBag({LoadCall(c, "poll")})
  /\ last' = [op |-> "loadOrders", code |-> 0, message |-> "GET /orders"]
  /\ UNCHANGED <<clock, envVars, ordVars, otpVars, dash, gen>>

\* fetchLiveOrders: the fetch settles; the list is the one the server holds
\* when it handles the request
FetchLiveOrdersSettled(r, outcome) ==
  /\ r \in CallsInFlight /\ r.kind = "load" /\ r.stage = "sent"
  /\ net' = Answered(r, fetchLiveOrders(outcome))
  /\ last' = [op |-> "GET /orders", message |-> outcome,
              code |-> IF outcome = "ok" THEN 200 ELSE IF outcome = "not ok" THEN 503 ELSE 0]
  /\ UNCHANGED <<clock, envVars, ordVars, otpVars, dash, gen>>

\* loadOrders after its await: setOrders(fetchedOrders); when the dialog's
\* click handler awaited it, the handler's finally: setBillSubmitting(false)
LoadOrdersResume(r) ==
  /\ r \in CallsInFlight /\ r.kind = "load" /\ r.stage = "answered"
  /\ dash' = [dash EXCEPT ![r.client].orders = r.resp,
                          ![r.client].billSubmitting = IF r.from = "dialog" THEN FALSE ELSE @]
  /\ net' = net (-) SetToBag({r})
  /\ last' = [op |-> "setOrders", code |-> 0, message |-> r.from]
  /\ UNCHANGED <<clock, envVars, ordVars, otpVars, gen>>

\* the orders a dashboard shows on its Orders tab
ActiveOrders(c) == {o \in Range(dash[c].orders) : o.status # "COMPLETED"}

\* getActionButton: the status a click on the action button asks for
NextStatus(status) ==
  IF status = "PENDING" THEN "PREPARING"
  ELSE IF status = "PREPARING" THEN "READY"
  ELSE ""

\* setOrders(prev => prev.map(order => order.id === orderId ? {...order, status} : order))
MapStatus(list, id, status) ==
  [i \in DOMAIN list |-> IF list[i].id = id THEN [list[i] EXCEPT !.status = status] ELSE list[i]]

\* handleStatusChange: up to the fetch of updateOrderStatus (PATCH /orders/:id)
handleStatusChange(c, o) ==
  /\ ~useMongo
  /\ o \in ActiveOrders(c)
  /\ NextStatus(o.status) # ""
  /\ CallRoom
  /\ net' = net (+) SetToBag({DashCall(c, "status", "click", o.id, NextStatus(o.status))})
  /\ last' = [op |-> "handleStatusChange", code |-> 0, message |-> "PATCH /orders/:id"]
  /\ UNCHANGED <<clock, envVars, ordVars, otpVars, dash, gen>>

\* updateOrderStatus: the fetch settles; the server handles the PATCH unless
\* the fetch rejected before the request reached it
UpdateOrderStatusSettled(r, outcome) ==
  /\ ~useMongo
  /\ r \in CallsInFlight /\ r.kind = "status" /\ r.stage = "sent"
  /\ orders' = IF outcome = "ok" THEN PatchMemory(orders, r.id, r.status, clock) ELSE orders
  /\ net' = Answered(r, <<>>)
  /\ last' = [op |-> "PATCH /orders/:id", message |-> outcome,
              code |-> IF outcome # "ok" THEN 0 ELSE IF findIndex(orders, r.id) # 0 THEN 200 ELSE 404]
  /\ UNCHANGED <<bills, billedAt, mongoOrders, mongoBills, pending>>
  /\ UNCHANGED <<clock, envVars, otpVars, dash, gen>>

\* handleStatusChange after its await: the local update, whatever
\* updateOrderStatus returned
HandleStatusChangeResume(r) ==
  /\ r \in CallsInFlight /\ r.kind = "status" /\ r.stage = "answered"
  /\ dash' = [dash EXCEPT ![r.client].orders = MapStatus(@, r.id, r.status)]
  /\ net' = net (-) SetToBag({r})
  /\ last' = [op |-> "handleStatusChange", code |-> 200, message |-> ""]
  /\ UNCHANGED <<clock, envVars, ordVars, otpVars, gen>>

\* the customer app asks for the bill of a READY order (PROJECT_OVERVIEW.md,
\* Order Status Workflow): PATCH /orders/:id {status: "BILL_REQUESTED"}
CustomerRequestBill(id) ==
  /\ ~useMongo
  /\ ServerStatus(id) = "READY"
  /\ orders' = PatchMemory(orders, id, "BILL_REQUESTED", clock)
  /\ last' = [op |-> "PATCH /orders/:id", code |-> 200, message |-> ""]
  /\ UNCHANGED <<bills, billedAt, mongoOrders, mongoBills, pending>>
  /\ UNCHANGED <<clock, envVars, otpVars, dashVars>>

\* getActionButton for READY and BILL_REQUESTED: setBillOrder(order); setBillOpen(true)
OpensDialog(status) == status \in {"READY", "BILL_REQUESTED"}
OpenBillDialog(c, o) ==
  /\ o \in ActiveOrders(c)
  /\ OpensDialog(o.status)
  /\ ~dash[c].billOpen
  /\ dash' = [dash EXCEPT ![c].billOrder = o, ![c].billOpen = TRUE]
  /\ last' = [op |-> "openBillDialog", code |-> 0, message |-> ""]
  /\ UNCHANGED <<clock, envVars, ordVars, otpVars, gen, net>>

\* AlertDialogCancel (disabled while billSubmitting): onOpenChange(false)
CancelBillDialog(c) ==
  /\ dash[c].billOpen /\ ~dash[c].billSubmitting
  /\ dash' = [dash EXCEPT ![c].billOpen = FALSE]
  /\ last' = [op |-> "cancelBillDialog", code |-> 0, message |-> ""]
  /\ UNCHANGED <<clock, envVars, ordVars, otpVars, gen, net>>

\* the body generateBillForOrder posts
BillBodyOf(o) ==
  [tableNumber |-> o.tableNumber, customerName |-> o.customerName,
   customerPhone |-> NullStr, items |-> ArrayOf(o.items)]

\* a call of generateBillForOrder at its fetch of POST /bills; ok is the
\* res.ok of the answer to that fetch, stored whether the server stored a bill
\* for the call
GenCall(c, o, via) ==
  [client |-> c, order |-> o, via |-> via, stage |-> "post", ok |-> FALSE, stored |-> FALSE]

\* AlertDialogAction onClick (disabled while billSubmitting): the call of
\* generateBillForOrder(billOrder) up to its fetch of POST /bills
ConfirmBillDialog(c) ==
  /\ dash[c].billOpen /\ ~dash[c].billSubmitting
  /\ dash[c].billOrder # NoOrder
  /\ Len(gen) < MaxGen /\ CallRoom
  /\ dash' = [dash EXCEPT ![c].billSubmitting = TRUE]
  /\ gen' = Append(gen, GenCall(c, dash[c].billOrder, "dialog"))
  /\ last' = [op |-> "confirmBillDialog", code |-> 0, message |-> ""]
  /\ UNCHANGED <<clock, envVars, ordVars, otpVars, net>>

\* the second "Generate Bill" button of a READY card: generateBillForOrder(order)
\* up to its fetch of POST /bills
ClickGenerateBill(c, o) ==
  /\ o \in ActiveOrders(c)
  /\ o.status = "READY"
  /\ Len(gen) < MaxGen /\ CallRoom
  /\ gen' = Append(gen, GenCall(c, o, "inline"))
  /\ last' = [op |-> "clickGenerateBill", code |-> 0, message |-> ""]
  /\ UNCHANGED <<clock, envVars, ordVars, otpVars, dash, net>>

RemoveAt(seq, i) == [j \in 1..(Len(seq) - 1) |-> IF j < i THEN seq[j] ELSE seq[j + 1]]

\* what the click handler does to the component's state with the result of
\* generateBillForOrder, up to its next await or its end
AfterGenerate(c, via, success) ==
  IF via = "dialog"
  THEN IF success
       THEN [dash EXCEPT ![c].billOpen = FALSE, ![c].billOrder = NoOrder]
       ELSE [dash EXCEPT ![c].billSubmitting = FALSE]
  ELSE dash

\* the loadOrders() the click handler calls on success: awaited by the
\* dialog's handler, not awaited by the card button's
RefreshAfter(c, via, success) ==
  IF success THEN SetToBag({LoadCall(c, via)}) ELSE EmptyBag

\* what generateBillForOrder returned to the click handler
GenResult(g, code) ==
  [op |-> "generateBillForOrder", code |-> code,
   message |-> IF code = 200 THEN "Bill generated and order completed" ELSE "Failed to generate bill",
   id |-> g.order.id, stored |-> g.stored]

\* generateBillForOrder: the server handles POST /bills
GenPostBill(i, later) ==
  /\ ~useMongo
  /\ i \in DOMAIN gen /\ gen[i].stage = "post"
  /\ LET body == BillBodyOf(gen[i].order)
     IN  IF BillRejection(body) # ""
         THEN /\ gen' = [gen EXCEPT ![i].stage = "posted", ![i].ok = FALSE]
              /\ last' = [op |-> "POST /bills", code |-> 400, message |-> BillRejection(body)]
              /\ UNCHANGED <<clock, ordVars>>
         ELSE /\ StoreBill(body, gen[i].order.id, later)
              /\ orders' = orders
              /\ gen' = [gen EXCEPT ![i].stage = "posted", ![i].ok = TRUE, ![i].stored = TRUE]
              /\ last' = [op |-> "POST /bills", code |-> 200, message |-> ""]
  /\ UNCHANGED <<envVars, otpVars, dash, net>>

\* generateBillForOrder after its first await: {success: false} when the
\* response is not ok, else up to the fetch of updateOrderStatus
GenPostReturned(i) ==
  /\ i \in DOMAIN gen /\ gen[i].stage = "posted"
  /\ IF gen[i].ok
     THEN /\ gen' = [gen EXCEPT ![i].stage = "patch"]
          /\ dash' = dash
          /\ last' = [op |-> "updateOrderStatus", code |-> 0, message |-> "PATCH /orders/:id"]
     ELSE /\ gen' = RemoveAt(gen, i)
          /\ dash' = AfterGenerate(gen[i].client, gen[i].via, FALSE)
          /\ last' = GenResult(gen[i], 400)
  /\ UNCHANGED <<clock, envVars, ordVars, otpVars, net>>

\* generateBillForOrder: the fetch of POST /bills rejects (the catch returns
\* {success: false}), before the request reached the server or after the
\* server handled it
GenPostFailed(i) ==
  /\ i \in DOMAIN gen /\ gen[i].stage \in {"post", "posted"}
  /\ gen' = RemoveAt(gen, i)
  /\ dash' = AfterGenerate(gen[i].client, gen[i].via, FALSE)
  /\ last' = GenResult(gen[i], 0)
  /\ UNCHANGED <<clock, envVars, ordVars, otpVars, net>>

\* generateBillForOrder: the server handles the PATCH of
\* updateOrderStatus(order.id, "COMPLETED")
GenComplete(i) ==
  /\ ~useMongo
  /\ i \in DOMAIN gen /\ gen[i].stage = "patch"
  /\ orders' = PatchMemory(orders, gen[i].order.id, "COMPLETED", clock)
  /\ gen' = [gen EXCEPT ![i].stage = "patched"]
  /\ last' = [op |-> "PATCH /orders/:id", code |-> 200, message |-> ""]
  /\ UNCHANGED <<bills, billedAt, mongoOrders, mongoBills, pending>>
  /\ UNCHANGED <<clock, envVars, otpVars, dash, net>>

\* generateBillForOrder: the fetch of updateOrderStatus rejects before the
\* request reached the server; updateOrderStatus returns {success: false}
GenPatchFailed(i) ==
  /\ i \in DOMAIN gen /\ gen[i].stage = "patch"
  /\ gen' = [gen EXCEPT ![i].stage = "patched"]
  /\ last' = [op |-> "PATCH /orders/:id", code |-> 0, message |-> "rejected"]
  /\ UNCHANGED <<clock, envVars, ordVars, otpVars, dash, net>>

\* generateBillForOrder after its second await, whose result is not looked
\* at: return {success: true}; the click handler goes on to its loadOrders()
GenReturn(i) ==
  /\ i \in DOMAIN gen /\ gen[i].stage = "patched"
  /\ gen' = RemoveAt(gen, i)
  /\ dash' = AfterGenerate(gen[i].client, gen[i].via, TRUE)
  /\ net' = net (+) RefreshAfter(gen[i].client, gen[i].via, TRUE)
  /\ last' = GenResult(gen[i], 200)
  /\ UNCHANGED <<clock, envVars, ordVars, otpVars>>

-----------------------------------------------------------------------------
(* OTP requests and verification, customers.                               *)
DigitChars == <<"0", "1", "2", "3", "4", "5", "6", "7", "8", "9">>

RECURSIVE ToStr(_)
\* String(n) / n.toString() for an integer n >= 0
ToStr(n) ==
  IF n < 10 THEN <<DigitChars[n + 1]>>
  ELSE ToStr(n \div 10) \o <<DigitChars[(n % 10) + 1]>>

\* Math.floor(1000 + Math.random() * 9000) lies in MinCode..MaxCode
MinCode == 1000
MaxCode == 9999
\* the draws of Math.random() the model follows
CodeSamples == {MinCode, MaxCode}

\* the code member of a verify body: a string or a number
StrCode(s) == [t |-> "str", s |-> s]
NumCode(n) == [t |-> "num", n |-> n]
VerifyCodes ==
  {StrCode(ToStr(n)) : n \in CodeSamples} \cup {NumCode(MinCode), StrCode(<<>>)}

\* !code
CodeMissing(c) == IF c.t = "str" THEN c.s = <<>> ELSE c.n = 0
\* String(code)
StringOf(c) == IF c.t = "str" THEN c.s ELSE ToStr(c.n)

OtpPhones == {ShortPhone, Local0455, Plus1455, Plus4477}

\* the key of the OTP table for a request's phone
OtpKeyRaw(raw) == raw
OtpKey(raw) == normalizePhone(raw)

\* app.post("/otp"): validation
OtpRejection(phone) ==
  IF ~PhonePresent(phone) THEN "Phone required"
  ELSE IF ~isValidPhone(phone) THEN "Invalid phone format"
  ELSE ""

\* otps[normPhone] = { code, createdAt: Date.now() }
IssueOtpKeepFirst(tbl, key, code, now) ==
  [k \in DOMAIN tbl \cup {key} |->
     IF k \in DOMAIN tbl THEN tbl[k] ELSE [code |-> code, createdAt |-> now]]
IssueOtp(tbl, key, code, now) ==
  [k \in DOMAIN tbl \cup {key} |->
     IF k = key THEN [code |-> code, createdAt |-> now] ELSE tbl[k]]

NoCode == <<>>

\* history of a phone's latest code: the spelling of the phone in the request
\* that issued it, the unconsumed code that request overwrote (NoCode if
\* none), the successful verifications since that request, the wrong-code
\* attempts since (counted up to MaxWrong)
MaxWrong == 2
SeenIssue(seen, tbl, key, raw) ==
  [k \in DOMAIN seen \cup {key} |->
     IF k = key
     THEN [raw |-> raw, prev |-> IF key \in DOMAIN tbl THEN tbl[key].code ELSE NoCode,
           used |-> 0, wrong |-> 0]
     ELSE seen[k]]
SeenVerify(seen, key, message) ==
  IF key \notin DOMAIN seen THEN seen
  ELSE IF message = "" THEN [seen EXCEPT ![key].used = @ + 1, ![key].prev = NoCode]
  ELSE IF message = "Invalid code" /\ seen[key].wrong < MaxWrong
       THEN [seen EXCEPT ![key].wrong = @ + 1]
  ELSE seen

\* how a call of an async function ends: it returns a value or it raises
Returned(v) == [raised |-> FALSE, value |-> v, error |-> ""]
Raised(e)   == [raised |-> TRUE, value |-> [success |-> "undefined"], error |-> e]

\* try { body } catch (e) { return onError }
TryCatchRethrow(r, onError) == r
TryCatch(r, onError) == IF r.raised THEN Returned(onError) ELSE r

\* twilioClient.messages.create: the message is created or the call rejects
TwilioOutcomes == {"created", "rejected"}
TwilioCreate(outcome) ==
  IF outcome = "created" THEN Returned([success |-> TRUE, sid |-> "SM1"])
  ELSE Raised("rejected")

\* sendWhatsAppMessage of the server; configured is twilioClient && twilioFrom
sendWhatsAppMessage(configured, outcome) ==
  IF ~configured THEN Returned([success |-> FALSE, message |-> "Twilio not configured"])
  ELSE LET r == TwilioCreate(outcome)
       IN  TryCatch(r, [success |-> FALSE, error |-> r.error])

\* the async block of app.post("/otp"): a send is attempted when twilioClient is set
OtpNotify(configured, key, code, call) ==
  IF configured THEN {[kind |-> "whatsapp", call |-> call, phone |-> key, code |-> code]} ELSE {}

\* process.env.NODE_ENV !== 'production' || process.env.DEBUG_OTPS === 'true'
ExposeCode(env) == env.NODE_ENV # "production" \/ env.DEBUG_OTPS = "true"

\* the JSON body of the 200 response of app.post("/otp")
OtpResponseBodyWithCode(env, phone, code) == [success |-> TRUE, code |-> code, phone |-> phone]
OtpResponseBody(env, phone, code) ==
  IF ExposeCode(env) THEN [success |-> TRUE, code |-> code, phone |-> phone]
  ELSE [success |-> TRUE, phone |-> phone]

\* app.post("/otp"); n is the draw of Math.random()
PostOtp(raw, n) ==
  /\ IF OtpRejection(raw) # ""
     THEN /\ last' = [op |-> "POST /otp", code |-> 400, message |-> OtpRejection(raw),
                      phone |-> raw]
          /\ UNCHANGED otpVars
     ELSE LET code == ToStr(n)
              task == OtpNotify(twilioClient, normalizePhone(raw), code, FreshCall(notifying))
          IN  /\ Cardinality(notifying \cup task) <= MaxTasks
              /\ otps' = IssueOtp(otps, OtpKey(raw), code, clock)
              /\ otpSeen' = SeenIssue(otpSeen, otps, normalizePhone(raw), raw)
              /\ notifying' = notifying \cup task
              /\ mongoCustomers' = mongoCustomers
              /\ last' = [op |-> "POST /otp", code |-> 200, message |-> "", phone |-> raw,
                          issued |-> code,
                          body |-> OtpResponseBody(procEnv, normalizePhone(raw), code)]
  /\ UNCHANGED <<clock, envVars, ordVars, dashVars>>

\* what the end of a delivery attempt does to the OTP table: nothing
AfterNotifyDropOnFailure(tbl, task, delivered) ==
  IF delivered THEN tbl ELSE [k \in DOMAIN tbl \ {task.phone} |-> tbl[k]]
AfterNotify(tbl, task, delivered) == tbl

\* sendWhatsAppMessage returns {success: true} or {success: false} (the
\* provider call threw); the async block logs the outcome
NotifyDone(task, delivered) ==
  /\ task \in notifying /\ task.kind = "whatsapp"
  /\ notifying' = notifying \ {task}
  /\ otps' = AfterNotify(otps, task, delivered)
  /\ last' = [op |-> "sendWhatsAppMessage", code |-> 0,
              message |-> IF delivered THEN "sent" ELSE "failed", phone |-> task.phone,
              result |-> sendWhatsAppMessage(twilioClient,
                                             IF delivered THEN "created" ELSE "rejected")]
  /\ UNCHANGED <<otpSeen, mongoCustomers>>
  /\ UNCHANGED <<clock, envVars, ordVars, dashVars>>

\* app.post("/otp/verify"): the checks, in the order of the code
VerifyRejection(tbl, phone, c) ==
  IF ~PhonePresent(phone) \/ CodeMissing(c) THEN "Phone and code required"
  ELSE IF ~isValidPhone(phone) THEN "Invalid phone format"
  ELSE IF OtpKey(phone) \notin DOMAIN tbl THEN "No OTP requested"
  ELSE IF tbl[OtpKey(phone)].code # StringOf(c) THEN "Invalid code"
  ELSE ""

\* delete otps[normPhone]
ConsumeOtpKeep(tbl, key) == tbl
ConsumeOtp(tbl, key) == [k \in DOMAIN tbl \ {key} |-> tbl[k]]

\* a rejected verification leaves the table as it is
AfterRejectedLockout(tbl, phone, message) ==
  IF message = "Invalid code" THEN ConsumeOtp(tbl, OtpKey(phone)) ELSE tbl
AfterRejected(tbl, phone, message) == tbl

\* const cust = { phone: normPhone, verifiedAt: Date.now() }, upserted when
\* useMongo && mongoDb
CustomerOnVerify(mongo, raw, now, call) ==
  IF mongo
  THEN {[kind |-> "customer", call |-> call, phone |-> normalizePhone(raw), verifiedAt |-> now]}
  ELSE {}

\* app.post("/otp/verify")
PostOtpVerify(raw, c) ==
  LET message == VerifyRejection(otps, raw, c)
  IN  /\ IF message # ""
         THEN /\ otps' = AfterRejected(otps, raw, message)
              /\ otpSeen' = IF PhonePresent(raw)
                            THEN SeenVerify(otpSeen, normalizePhone(raw), message)
                            ELSE otpSeen
              /\ notifying' = notifying
              /\ last' = [op |-> "POST /otp/verify", code |-> 400, message |-> message,
                          phone |-> raw, given |-> c]
         ELSE LET task == CustomerOnVerify(useMongo, raw, clock, FreshCall(notifying))
              IN  /\ Cardinality(notifying \cup task) <= MaxTasks
                  /\ otps' = ConsumeOtp(otps, OtpKey(raw))
                  /\ otpSeen' = SeenVerify(otpSeen, normalizePhone(raw), "")
                  /\ notifying' = notifying \cup task
                  /\ last' = [op |-> "POST /otp/verify", code |-> 200, message |-> "",
                              phone |-> raw, given |-> c]
      /\ mongoCustomers' = mongoCustomers
      /\ UNCHANGED <<clock, envVars, ordVars, dashVars>>

NoCustomer ==
  [name |-> "", tableNumber |-> NullNum, verifiedAt |-> NullNum,
   createdAt |-> NullNum, updatedAt |-> NullNum]

\* updateOne({phone}, {$set: {phone, verifiedAt}}, {upsert: true})
UpsertVerified(coll, phone, verifiedAt) ==
  [k \in DOMAIN coll \cup {phone} |->
     IF k = phone
     THEN [(IF phone \in DOMAIN coll THEN coll[phone] ELSE NoCustomer)
             EXCEPT !.verifiedAt = verifiedAt]
     ELSE coll[k]]

\* the store answers the upsert started by a successful verification, or
\* throws (caught and logged)
CustomerUpsertDone(task, fails) ==
  /\ task \in notifying /\ task.kind = "customer"
  /\ notifying' = notifying \ {task}
  /\ mongoCustomers' = IF fails THEN mongoCustomers
                       ELSE UpsertVerified(mongoCustomers, task.phone, task.verifiedAt)
  /\ last' = [op |-> "customers.updateOne", code |-> 0,
              message |-> IF fails THEN "failed" ELSE "stored"] 
  /\ UNCHANGED <<otps, otpSeen>>
  /\ UNCHANGED <<clock, envVars, ordVars, dashVars>>

\* updateOne({phone}, {$set: record, $setOnInsert: {createdAt: Date.now()}}, {upsert: true})
\* with record = {phone, name: name || null, tableNumber: tableNumber || null, updatedAt}
\* and createdAt what the Date.now() of the call's argument gave
UpsertCustomer(coll, phone, name, tableNumber, updatedAt, createdAt) ==
  [k \in DOMAIN coll \cup {phone} |->
     IF k = phone
     THEN [(IF phone \in DOMAIN coll THEN coll[phone]
            ELSE [NoCustomer EXCEPT !.createdAt = createdAt])
             EXCEPT !.name = name, !.tableNumber = OrNum(tableNumber, NullNum),
                    !.updatedAt = updatedAt]
     ELSE coll[k]]

CustomerRejection(phone) ==
  IF ~PhonePresent(phone) THEN "phone required"
  ELSE IF ~isValidPhone(phone) THEN "invalid phone format"
  ELSE ""

\* const record = {phone: normPhone, name: name || null,
\*                 tableNumber: tableNumber || null, updatedAt: Date.now()}
CustomerRecord(raw, name, tableNumber, now) ==
  [phone |-> normalizePhone(raw), name |-> name,
   tableNumber |-> OrNum(tableNumber, NullNum), updatedAt |-> now]

\* calls on the customers collection in flight: those of the customers routes,
\* suspended at their await, and the upserts started by verifications
CustomerCalls == {op \in pending : op.kind \in {"putCustomer", "findCustomers"}}
CustomerUpserts == {task \in notifying : task.kind = "customer"}
CustomerRoom == Cardinality(CustomerCalls) + Cardinality(CustomerUpserts) < MaxCustomerCalls

\* app.post('/customers') up to its response, or up to its await of updateOne
\* when the store is enabled
PostCustomers(raw, name, tableNumber, later) ==
  /\ later \in SecondRead
  /\ IF CustomerRejection(raw) # ""
     THEN /\ pending' = pending
          /\ clock' = clock
          /\ last' = [op |-> "POST /customers", code |-> 400,
                      message |-> CustomerRejection(raw),
                      phone |-> raw]
     ELSE IF useMongo
     THEN /\ CustomerRoom
          /\ clock' = later
          /\ pending' = pending \cup
                    {[kind |-> "putCustomer", call |-> FreshCall(pending), stage |-> "sent",
                      raw |-> raw,
                      record |-> CustomerRecord(raw, name, tableNumber, clock),
                      tableNumber |-> tableNumber, createdAt |-> later, result |-> ""]}
          /\ last' = [op |-> "await customers.updateOne", code |-> 0, message |-> "",
                      phone |-> raw]
     ELSE /\ pending' = pending
          /\ clock' = clock
          /\ last' = [op |-> "POST /customers", code |-> 200,
                      message |-> "Mongo not configured; in-memory only",
                      phone |-> raw,
                      customer |-> CustomerRecord(raw, name, tableNumber, clock)]
  /\ UNCHANGED <<orders, bills, billedAt, mongoOrders, mongoBills>>
  /\ UNCHANGED <<envVars, otpVars, dashVars>>

\* the store executes the updateOne of a POST /customers, or throws
CustomersUpdateOne(op, fails) ==
  /\ op \in pending /\ op.kind = "putCustomer" /\ op.stage = "sent"
  /\ mongoCustomers' =
       IF fails THEN mongoCustomers
       ELSE UpsertCustomer(mongoCustomers, op.record.phone, op.record.name,
                           op.tableNumber, op.record.updatedAt, op.createdAt)
  /\ pending' = (pending \ {op}) \cup
       {[op EXCEPT !.stage = "returned", !.result = IF fails THEN "error" ELSE "ok"]}
  /\ last' = [op |-> "store updateOne", code |-> 0,
              message |-> IF fails THEN "failed" ELSE "stored"]
  /\ UNCHANGED <<orders, bills, billedAt, mongoOrders, mongoBills>>
  /\ UNCHANGED <<otps, otpSeen, notifying>>
  /\ UNCHANGED <<clock, envVars, dashVars>>

\* app.post('/customers') after its await: the response with the record, 500
\* from the catch
PostCustomersResume(op) ==
  /\ op \in pending /\ op.kind = "putCustomer" /\ op.stage = "returned"
  /\ pending' = pending \ {op}
  /\ last' = IF op.result = "ok"
             THEN [op |-> "POST /customers", code |-> 200, message |-> "",
                   phone |-> op.raw, customer |-> op.record]
             ELSE [op |-> "POST /customers", code |-> 500, message |-> "store error",
                   phone |-> op.raw]
  /\ UNCHANGED <<orders, bills, billedAt, mongoOrders, mongoBills>>
  /\ UNCHANGED <<clock, envVars, otpVars, dashVars>>

\* app.get('/customers'): the phones of the list the store's answer gives
CustomersListed(mongo, coll, fails) == IF mongo /\ ~fails THEN DOMAIN coll ELSE {}

\* app.get('/customers') up to its response, or up to its await of
\* find({}).toArray() when the store is enabled
GetCustomers ==
  /\ IF useMongo
     THEN /\ CustomerRoom
          /\ pending' = pending \cup
               {[kind |-> "findCustomers", call |-> FreshCall(pending), stage |-> "sent", list |-> {}]}
          /\ last' = [op |-> "await customers.find", code |-> 0, message |-> ""]
     ELSE /\ pending' = pending
          /\ last' = [op |-> "GET /customers", code |-> 200, message |-> "",
                      list |-> CustomersListed(FALSE, mongoCustomers, FALSE)]
  /\ UNCHANGED <<orders, bills, billedAt, mongoOrders, mongoBills>>
  /\ UNCHANGED <<clock, envVars, otpVars, dashVars>>

\* the store reads the collection for a GET /customers, or throws
CustomersFind(op, fails) ==
  /\ op \in pending /\ op.kind = "findCustomers" /\ op.stage = "sent"
  /\ pending' = (pending \ {op}) \cup
       {[op EXCEPT !.stage = "returned",
                   !.list = CustomersListed(useMongo, mongoCustomers, fails)]}
  /\ last' = [op |-> "store find", code |-> 0,
              message |-> IF fails THEN "failed" ELSE "read"]
  /\ UNCHANGED <<orders, bills, billedAt, mongoOrders, mongoBills>>
  /\ UNCHANGED <<clock, envVars, otpVars, dashVars>>

\* app.get('/customers') after its await: the list read, [] after the catch
GetCustomersResume(op) ==
  /\ op \in pending /\ op.kind = "findCustomers" /\ op.stage = "returned"
  /\ pending' = pending \ {op}
  /\ last' = [op |-> "GET /customers", code |-> 200, message |-> "", list |-> op.list]
  /\ UNCHANGED <<orders, bills, billedAt, mongoOrders, mongoBills>>
  /\ UNCHANGED <<clock, envVars, otpVars, dashVars>>

-----------------------------------------------------------------------------
(* The daily report (app.get("/reports/daily")).  A date is the number of  *)
(* its day; instants are milliseconds, in a zone without clock changes.    *)
HourMs == 3600000
DayMs == 24 * HourMs
\* new Date(date + "T00:00:00").getTime() and new Date(date + "T23:59:59").getTime()
DayStart(date) == date * DayMs
DayEnd(date) == DayStart(date) + DayMs - 1000

\* bills.filter((b) => b.createdAt >= start && b.createdAt <= end)
InWindow(b, lo, hi) == b.createdAt >= lo /\ b.createdAt <= hi
dayBills(list, date) == SelectSeq(list, LAMBDA b : InWindow(b, DayStart(date), DayEnd(date)))

RECURSIVE SumTotals(_)
\* list.reduce((s, b) => s + (b.total || 0), 0)
SumTotals(list) ==
  IF list = <<>> THEN 0 ELSE OrNum(Head(list).total, 0) + SumTotals(Tail(list))

\* a count the code does not make: one customer per bill
CustomerCountPerBill(list) == Len(list)
\* new Set(dayBills.map((b) => b.customerName)).size
CustomerCount(list) == Cardinality({list[i].customerName : i \in DOMAIN list})

RECURSIVE Gcd(_, _)
Gcd(a, b) == IF b = 0 THEN a ELSE Gcd(b, a % b)
\* a quotient the code does not compute: the integer part only
AverageOrderValueFloor(revenue, count) ==
  [num |-> IF count = 0 THEN 0 ELSE revenue \div count, den |-> 1]
\* totalOrders ? totalRevenue / totalOrders : 0, as the fraction in lowest terms
\* that the quotient is
AverageOrderValue(revenue, count) ==
  IF count = 0 \/ revenue = 0 THEN [num |-> 0, den |-> 1]
  ELSE [num |-> revenue \div Gcd(revenue, count), den |-> count \div Gcd(revenue, count)]

\* Item ids and names are strings of characters; NullStr is an absent id.
\* const key = it.id || it.name
ItemKey(it) == IF it.id = NullStr \/ it.id = <<>> THEN it.name ELSE it.id

DigitOf(c) == CHOOSE d \in 0..9 : ToStr(d) = <<c>>
RECURSIVE NumeralLeq(_, _)
\* a <= b for canonical decimal numerals: by length, then digit by digit
NumeralLeq(a, b) ==
  IF Len(a) # Len(b) THEN Len(a) < Len(b)
  ELSE IF a = <<>> THEN TRUE
  ELSE IF Head(a) # Head(b) THEN DigitOf(Head(a)) < DigitOf(Head(b))
  ELSE NumeralLeq(Tail(a), Tail(b))

\* the largest integer index of a property key, 2^32 - 2
MaxIndexKey == <<"4", "2", "9", "4", "9", "6", "7", "2", "9", "4">>
\* the property keys that are integer indices: canonical decimal numerals up
\* to 2^32 - 2
IsIndexKey(key) ==
  /\ key # <<>>
  /\ \A i \in DOMAIN key : key[i] \in Digits
  /\ Len(key) > 1 => key[1] # "0"
  /\ NumeralLeq(key, MaxIndexKey)

\* the names every object created by {} inherits from Object.prototype; each
\* of their values is truthy
ObjectPrototypeKeys ==
  { <<"c", "o", "n", "s", "t", "r", "u", "c", "t", "o", "r">>,
    <<"h", "a", "s", "O", "w", "n", "P", "r", "o", "p", "e", "r", "t", "y">>,
    <<"i", "s", "P", "r", "o", "t", "o", "t", "y", "p", "e", "O", "f">>,
    <<"p", "r", "o", "p", "e", "r", "t", "y", "I", "s", "E", "n", "u", "m", "e", "r", "a", "b", "l", "e">>,
    <<"t", "o", "L", "o", "c", "a", "l", "e", "S", "t", "r", "i", "n", "g">>,
    <<"t", "o", "S", "t", "r", "i", "n", "g">>,
    <<"v", "a", "l", "u", "e", "O", "f">>,
    <<"_", "_", "p", "r", "o", "t", "o", "_", "_">>,
    <<"_", "_", "d", "e", "f", "i", "n", "e", "G", "e", "t", "t", "e", "r", "_", "_">>,
    <<"_", "_", "d", "e", "f", "i", "n", "e", "S", "e", "t", "t", "e", "r", "_", "_">>,
    <<"_", "_", "l", "o", "o", "k", "u", "p", "G", "e", "t", "t", "e", "r", "_", "_">>,
    <<"_", "_", "l", "o", "o", "k", "u", "p", "S", "e", "t", "t", "e", "r", "_", "_">> }
\* !itemMap[key] for a key that has no entry of its own yet
NoEntryYet(key) == key \notin ObjectPrototypeKeys

RECURSIVE AllItems(_)
\* the line items in the order dayBills.forEach(b => b.items.forEach(...)) visits them
AllItems(list) == IF list = <<>> THEN <<>> ELSE Head(list).items \o AllItems(Tail(list))

RECURSIVE FirstKeys(_, _)
\* the keys in the order in which they were first added to itemMap; a key
\* with an inherited value gets no entry
FirstKeys(its, seen) ==
  IF its = <<>> THEN <<>>
  ELSE IF ItemKey(Head(its)) \in seen \/ ~NoEntryYet(ItemKey(Head(its)))
  THEN FirstKeys(Tail(its), seen)
  ELSE <<ItemKey(Head(its))>> \o FirstKeys(Tail(its), seen \cup {ItemKey(Head(its))})

\* a key without an entry in itemMap
NoItemGroup == [name |-> NullStr, quantity |-> NullNum, revenue |-> NullNum]
\* the entry of itemMap for a key after the loops: the name of the first item
\* with the key, the summed quantity and the summed price * quantity; none for
\* a key with an inherited value, to which lines 554-555 add instead
ItemGroup(its, key) ==
  LET mine  == SelectSeq(its, LAMBDA it : ItemKey(it) = key)
      qty[k \in 0..Len(mine)] ==
        IF k = 0 THEN 0 ELSE qty[k - 1] + OrNum(mine[k].quantity, 1)
      rev[k \in 0..Len(mine)] ==
        IF k = 0 THEN 0
        ELSE rev[k - 1] + OrNum(mine[k].price, 0) * OrNum(mine[k].quantity, 1)
  IN  IF NoEntryYet(key) /\ mine # <<>>
      THEN [name |-> mine[1].name, quantity |-> qty[Len(mine)], revenue |-> rev[Len(mine)]]
      ELSE NoItemGroup

RECURSIVE AscendingKeys(_)
\* a set of index keys in ascending numeric order
AscendingKeys(S) ==
  IF S = {} THEN <<>>
  ELSE LET least == CHOOSE k \in S : \A o \in S : NumeralLeq(k, o)
       IN  <<least>> \o AscendingKeys(S \ {least})

\* the order in which Object.values(itemMap) enumerates: integer index keys in
\* ascending numeric order, then the other keys in insertion order
ObjectKeyOrder(keys) ==
  AscendingKeys({k \in Range(keys) : IsIndexKey(k)})
  \o SelectSeq(keys, LAMBDA k : ~IsIndexKey(k))

RECURSIVE SortByQuantity(_)
\* list.sort((a, b) => b.quantity - a.quantity): stable, descending quantity
SortByQuantity(list) ==
  IF list = <<>> THEN <<>>
  ELSE LET rest == SortByQuantity(SubSeq(list, 1, Len(list) - 1))
           x    == list[Len(list)]
           keep == SelectSeq(rest, LAMBDA y : y.quantity >= x.quantity)
           move == SelectSeq(rest, LAMBDA y : y.quantity < x.quantity)
       IN  keep \o <<x>> \o move

TopCount == 10
\* Object.values(itemMap).sort(...).slice(0, 10)
topItems(list) ==
  LET its    == AllItems(list)
      keys   == ObjectKeyOrder(FirstKeys(its, {}))
      values == [i \in DOMAIN keys |-> ItemGroup(its, keys[i])]
      sorted == SortByQuantity(values)
  IN  SubSeq(sorted, 1, IF Len(sorted) < TopCount THEN Len(sorted) ELSE TopCount)

HoursPerDay == 24
\* hourly[h]: the bills of dayBills with hourStart <= createdAt <= hourEnd
hourlyBreakdown(list, date) ==
  [k \in 1..HoursPerDay |->
     LET hourStart == DayStart(date) + (k - 1) * HourMs
         hourEnd   == hourStart + HourMs - 1
         hb        == SelectSeq(list, LAMBDA b : InWindow(b, hourStart, hourEnd))
     IN  [hour |-> k - 1, orders |-> Len(hb), revenue |-> SumTotals(hb)]]

\* a report the code does not compute: only the bills created before now
DailyReportBeforeNow(all, date) ==
  LET list == SelectSeq(dayBills(all, date), LAMBDA b : b.createdAt < clock)
  IN  [ date              |-> date,
        totalOrders       |-> Len(list),
        totalRevenue      |-> SumTotals(list),
        averageOrderValue |-> AverageOrderValue(SumTotals(list), Len(list)),
        totalCustomers    |-> CustomerCount(list),
        topItems          |-> topItems(list),
        hourlyBreakdown   |-> hourlyBreakdown(list, date) ]
\* the body of the response
DailyReport(all, date) ==
  LET list == dayBills(all, date)
  IN  [ date              |-> date,
        totalOrders       |-> Len(list),
        totalRevenue      |-> SumTotals(list),
        averageOrderValue |-> AverageOrderValue(SumTotals(list), Len(list)),
        totalCustomers    |-> CustomerCount(list),
        topItems          |-> topItems(list),
        hourlyBreakdown   |-> hourlyBreakdown(list, date) ]

\* app.get("/reports/daily") for a given date
GetDailyReport(date) ==
  /\ last' = [op |-> "GET /reports/daily", code |-> 200, message |-> "",
              report |-> DailyReport(bills, date)]
  /\ UNCHANGED <<clock, envVars, ordVars, otpVars, dashVars>>

-----------------------------------------------------------------------------
(* Notification senders: sendWhatsAppMessage of the server and the service *)
(* modules whatsappService.js and smsService.js.                           *)
MaxSends == 2          \* sends of one service module suspended at the provider at one time
WhatsappCredits == 1000  \* whatsappSettings.credits
SmsCredits == 100        \* smsSettings.credits

\* fetch and response.json() of the service modules: a 2xx response, an error
\* response with and without a message in its body, an error response whose
\* body is the JSON null, a body that is not JSON, a network exception
ProviderOutcomes ==
  {"ok", "error message", "error", "error null", "not json", "network exception"}
ProviderCall(outcome) ==
  CASE outcome = "ok"            -> Returned([success |-> TRUE, result |-> "result"])
    [] outcome = "error message" -> Returned([success |-> FALSE, message |-> "provider message"])
    [] outcome = "error"         -> Returned([success |-> FALSE, message |-> "API error"])
    [] outcome = "error null"    -> Raised("Cannot read properties of null")
    [] outcome = "not json"      -> Raised("Unexpected token")
    [] OTHER                     -> Raised("fetch failed")

\* the part of sendWhatsappMessage and of sendSmsMessage after the provider call
AfterProviderCall(outcome) ==
  LET r == ProviderCall(outcome)
  IN  TryCatch(r, [success |-> FALSE, message |-> r.error])

\* !settings.enabled || !settings.apiKey || !settings.phoneNumber
NotConfigured(st) == ~st.enabled \/ st.apiKey = "" \/ st.phoneNumber = ""
\* settings.used >= settings.credits
CreditsExhausted(st) == st.used >= st.credits

\* SMS_PROVIDERS and the cases of the switch of sendSmsMessage
SmsProviders == {"twilio", "aws-sns", "messagebird", "nexmo"}
SmsSwitchCases == {"twilio", "messagebird", "nexmo"}
\* SMS_PROVIDERS[provider] is truthy: a configuration of the literal, or a
\* member the literal inherits from Object.prototype
HasProvider(provider) ==
  provider \in SmsProviders \cup
    { "constructor", "hasOwnProperty", "isPrototypeOf", "propertyIsEnumerable",
      "toLocaleString", "toString", "valueOf", "__proto__", "__defineGetter__",
      "__defineSetter__", "__lookupGetter__", "__lookupSetter__" }

\* sendWhatsappMessage up to its await of fetch: the message it returns with
\* before calling the provider, "" when it goes on to the call
WhatsappRefusal(st) ==
  IF NotConfigured(st) THEN "WhatsApp not configured"
  ELSE IF CreditsExhausted(st) THEN "Credits exhausted"
  ELSE ""
\* the same of sendSmsMessage
SmsRefusal(st) ==
  IF NotConfigured(st) THEN "SMS not configured"
  ELSE IF CreditsExhausted(st) THEN "Credits exhausted"
  ELSE IF ~HasProvider(st.provider) THEN "Invalid SMS provider"
  ELSE IF st.provider \notin SmsSwitchCases THEN "Unsupported SMS provider"
  ELSE ""

\* updateWhatsappSettings; a field the caller left out is "undefined", enabled
\* is "true" or "false" when it is a boolean
SettingsUpdates ==
  { [enabled |-> "true", apiKey |-> "key", phoneNumber |-> "id"],
    [enabled |-> "false", apiKey |-> "undefined", phoneNumber |-> "undefined"],
    [enabled |-> "true", apiKey |-> "", phoneNumber |-> "undefined"] }
ApplyCommon(st, new) ==
  [st EXCEPT !.enabled = IF new.enabled = "undefined" THEN @ ELSE new.enabled = "true",
             !.apiKey = IF new.apiKey = "undefined" THEN @ ELSE new.apiKey,
             !.phoneNumber = IF new.phoneNumber = "undefined" THEN @ ELSE new.phoneNumber]
updateWhatsappSettings(new) ==
  /\ whatsappSettings' = ApplyCommon(whatsappSettings, new)
  /\ last' = [op |-> "updateWhatsappSettings", code |-> 0, message |-> ""]
  /\ UNCHANGED <<smsSettings, sending>>
  /\ UNCHANGED <<clock, useMongo, twilioClient, startup, procEnv, ordVars, otpVars, dashVars>>

\* updateSmsSettings; provider is taken when it is truthy and
\* SMS_PROVIDERS[provider] is, apiSecret when it is not undefined
SmsProviderInputs == {"undefined", "aws-sns", "plivo", "constructor"}
SmsSecretInputs == {"undefined", "secret"}
updateSmsSettings(new, provider, apiSecret) ==
  /\ smsSettings' =
       [ApplyCommon(smsSettings, new) EXCEPT
          !.provider = IF provider \notin {"undefined", ""} /\ HasProvider(provider)
                       THEN provider ELSE @,
          !.apiSecret = IF apiSecret # "undefined" THEN apiSecret ELSE @]
  /\ last' = [op |-> "updateSmsSettings", code |-> 0, message |-> ""]
  /\ UNCHANGED <<whatsappSettings, sending>>
  /\ UNCHANGED <<clock, useMongo, twilioClient, startup, procEnv, ordVars, otpVars, dashVars>>

\* sendWhatsappMessage from its call to its first await
SendWhatsappStart ==
  /\ IF WhatsappRefusal(whatsappSettings) # ""
     THEN /\ last' = [op |-> "sendWhatsappMessage", code |-> 0,
                      message |-> WhatsappRefusal(whatsappSettings), called |-> FALSE,
                      result |-> Returned([success |-> FALSE,
                                           message |-> WhatsappRefusal(whatsappSettings)])]
          /\ UNCHANGED sending
     ELSE /\ sending.whatsapp < MaxSends
          /\ sending' = [sending EXCEPT !.whatsapp = @ + 1]
          /\ last' = [op |-> "fetch", code |-> 0, message |-> "whatsapp"]
  /\ UNCHANGED <<whatsappSettings, smsSettings>>
  /\ UNCHANGED <<clock, useMongo, twilioClient, startup, procEnv, ordVars, otpVars, dashVars>>

\* sendWhatsappMessage from the end of the provider call to its return
SendWhatsappDone(outcome) ==
  /\ sending.whatsapp > 0
  /\ sending' = [sending EXCEPT !.whatsapp = @ - 1]
  /\ whatsappSettings' = [whatsappSettings EXCEPT
                            !.used = IF outcome = "ok" THEN @ + 1 ELSE @]
  /\ last' = [op |-> "sendWhatsappMessage", code |-> 0, message |-> outcome, called |-> TRUE,
              result |-> AfterProviderCall(outcome)]
  /\ UNCHANGED smsSettings
  /\ UNCHANGED <<clock, useMongo, twilioClient, startup, procEnv, ordVars, otpVars, dashVars>>

\* sendSmsMessage from its call to its first await
SendSmsStart ==
  /\ IF SmsRefusal(smsSettings) # ""
     THEN /\ last' = [op |-> "sendSmsMessage", code |-> 0,
                      message |-> SmsRefusal(smsSettings), called |-> FALSE,
                      result |-> Returned([success |-> FALSE,
                                           message |-> SmsRefusal(smsSettings)])]
          /\ UNCHANGED sending
     ELSE /\ sending.sms < MaxSends
          /\ sending' = [sending EXCEPT !.sms = @ + 1]
          /\ last' = [op |-> "fetch", code |-> 0, message |-> "sms"]
  /\ UNCHANGED <<whatsappSettings, smsSettings>>
  /\ UNCHANGED <<clock, useMongo, twilioClient, startup, procEnv, ordVars, otpVars, dashVars>>

\* sendSmsMessage from the end of the provider call to its return
SendSmsDone(outcome) ==
  /\ sending.sms > 0
  /\ sending' = [sending EXCEPT !.sms = @ - 1]
  /\ smsSettings' = [smsSettings EXCEPT !.used = IF outcome = "ok" THEN @ + 1 ELSE @]
  /\ last' = [op |-> "sendSmsMessage", code |-> 0, message |-> outcome, called |-> TRUE,
              result |-> AfterProviderCall(outcome)]
  /\ UNCHANGED whatsappSettings
  /\ UNCHANGED <<clock, useMongo, twilioClient, startup, procEnv, ordVars, otpVars, dashVars>>

\* the service modules as they are loaded
InitServices ==
  /\ whatsappSettings = [enabled |-> FALSE, apiKey |-> "", phoneNumber |-> "",
                         credits |-> WhatsappCredits, used |-> 0]
  /\ smsSettings = [enabled |-> FALSE, provider |-> "twilio", apiKey |-> "", apiSecret |-> "",
                    phoneNumber |-> "", credits |-> SmsCredits, used |-> 0]
  /\ sending = [whatsapp |-> 0, sms |-> 0]

\* process.env as the server reads it: NODE_ENV and DEBUG_OTPS unset
InitProcEnv == procEnv = [NODE_ENV |-> "", DEBUG_OTPS |-> ""]

-----------------------------------------------------------------------------
(* Startup: the connection attempt and startServer.                        *)
WaitSeconds == 5    \* awaitPromiseWithTimeout(mongoConnectPromise, 5000), in seconds

\* the process as it is loaded: with USE_MONGO "true" and a URI the connection
\* attempt is under way and mongoConnectPromise is pending
maxRetries == 10    \* const maxRetries
basePort == 4001    \* const basePort, PORT unset
\* the ports the loop of startServer goes through
TryPorts == basePort .. basePort + maxRetries
\* const tryPort = basePort + i
tryPort(i) == basePort + i

Booting(required) ==
  [ required |-> required, connect |-> IF required THEN "pending" ELSE "none",
    promise |-> IF required THEN "pending" ELSE "none", waited |-> 0, server |-> "starting",
    attempt |-> 0, ports |-> {}, inUse |-> {} ]

\* mongoConnectPromise = mongoClient.connect().then(...).catch(...): the
\* promise after its handlers ran.  The catch handler returns, so the promise
\* is resolved after a failed connection too
PromiseAfterConnect(ok) == "resolved"

\* mongoClient.connect() settles and the then or the catch handler runs
ConnectDone(ok) ==
  /\ startup.connect = "pending" /\ startup.server # "exited"
  /\ startup' = [startup EXCEPT !.connect = IF ok THEN "ok" ELSE "failed",
                                !.promise = PromiseAfterConnect(ok)]
  /\ useMongo' = ok
  /\ last' = [op |-> "mongoClient.connect", code |-> 0,
              message |-> IF ok THEN "connected" ELSE "failed"]
  /\ UNCHANGED <<clock, twilioClient, procEnv, svcVars, ordVars, otpVars, dashVars>>

\* a second of the wait passes with the promise pending
WaitTick ==
  /\ startup.server = "starting" /\ startup.promise = "pending"
  /\ startup.waited < WaitSeconds
  /\ startup' = [startup EXCEPT !.waited = @ + 1]
  /\ last' = [op |-> "startServer", code |-> 0, message |-> "waiting"]
  /\ UNCHANGED <<clock, useMongo, twilioClient, procEnv, svcVars, ordVars, otpVars, dashVars>>

\* the timer of awaitPromiseWithTimeout fires with the promise pending, the
\* await of startServer throws: process.exit(1)
FailFast ==
  /\ startup.server = "starting"
  /\ startup.promise = "pending" /\ startup.waited = WaitSeconds
  /\ startup' = [startup EXCEPT !.server = "exited"]
  /\ last' = [op |-> "startServer", code |-> 1, message |-> "exit"]
  /\ UNCHANGED <<clock, useMongo, twilioClient, procEnv, svcVars, ordVars, otpVars, dashVars>>

\* startServer goes on to server.listen: there was nothing to wait for, or the
\* awaited promise is resolved
Listen ==
  /\ startup.server = "starting"
  /\ startup.promise \in {"none", "resolved"}
  /\ tryPort(startup.attempt) \notin startup.inUse
  /\ startup' = [startup EXCEPT !.server = "listening",
                                !.ports = @ \cup {tryPort(startup.attempt)}]
  /\ last' = [op |-> "startServer", code |-> 0, message |-> "listening"]
  /\ UNCHANGED <<clock, useMongo, twilioClient, procEnv, svcVars, ordVars, otpVars, dashVars>>

\* for (let i = 0; i <= maxRetries; i++): the attempt with index i is the last
LastAttemptOneMore(i) == i = maxRetries + 1
LastAttempt(i) == i = maxRetries

\* server.listen(tryPort) fails with EADDRINUSE: the loop continues with the
\* next port, and after the last attempt startServer ends in process.exit(1)
PortInUse ==
  /\ startup.server = "starting"
  /\ startup.promise \in {"none", "resolved"}
  /\ tryPort(startup.attempt) \in startup.inUse
  /\ IF LastAttempt(startup.attempt)
     THEN /\ startup' = [startup EXCEPT !.server = "exited"]
          /\ last' = [op |-> "startServer", code |-> 1, message |-> "Unable to bind server"]
     ELSE /\ startup' = [startup EXCEPT !.attempt = @ + 1]
          /\ last' = [op |-> "startServer", code |-> 0, message |-> "EADDRINUSE"]
  /\ UNCHANGED <<clock, useMongo, twilioClient, procEnv, svcVars, ordVars, otpVars, dashVars>>

\* server.listen(tryPort) fails with another error (EACCES, a port number out
\* of range): process.exit(1)
ListenError ==
  /\ startup.server = "starting"
  /\ startup.promise \in {"none", "resolved"}
  /\ startup' = [startup EXCEPT !.server = "exited"]
  /\ last' = [op |-> "startServer", code |-> 1, message |-> "Failed to start server"]
  /\ UNCHANGED <<clock, useMongo, twilioClient, procEnv, svcVars, ordVars, otpVars, dashVars>>

-----------------------------------------------------------------------------
(* Specifications.                                                         *)
\* the process once startServer has its server listening: with the store when
\* the connection was made, without it when USE_MONGO is not "true"
Listening(mongo) ==
  [ required |-> mongo, connect |-> IF mongo THEN "ok" ELSE "none",
    promise |-> IF mongo THEN "resolved" ELSE "none", waited |-> 0, server |-> "listening",
    attempt |-> 0, ports |-> {basePort}, inUse |-> {} ]

InitStores ==
  /\ clock = 1
  /\ orders = <<>> /\ bills = <<>> /\ billedAt = <<>>
  /\ mongoOrders = EmptyFn /\ mongoBills = EmptyFn /\ mongoCustomers = EmptyFn
  /\ pending = {}
  /\ otps = EmptyFn /\ otpSeen = EmptyFn
  /\ notifying = {}
  /\ dash = [c \in Clients |-> DashInit]
  /\ gen = <<>>
  /\ net = EmptyBag
  /\ last = [op |-> "start", code |-> 0, message |-> ""]

InitEnv ==
  /\ InitStores /\ InitServices /\ InitProcEnv
  /\ useMongo \in BOOLEAN
  /\ twilioClient \in BOOLEAN
  /\ startup = Listening(useMongo)

\* Order lifecycle over the REST API, with in-memory stores and with the
\* persistent store (MaxMongoDocs orders, MaxMongoDocs bills there)
MaxMongoDocs == 1
OrderRoom == Len(orders) < (IF useMongo THEN MaxMongoDocs ELSE MaxOrders)
BillRoom == Len(bills) < (IF useMongo THEN MaxMongoDocs ELSE MaxBills)
PendingRoom == Cardinality(pending) < MaxPending

Init == InitEnv /\ twilioClient = FALSE

Next ==
  \/ Tick
  \/ \E body \in OrderBodies, later \in SecondRead : OrderRoom /\ PostOrders(body, later)
  \/ \E op \in pending, fails \in BOOLEAN : PutOrderExec(op, fails)
  \/ \E op \in pending : PutOrderDone(op)
  \/ \E id \in PatchIds, status \in PatchStatuses : PendingRoom /\ PatchOrders(id, status)
  \/ \E op \in pending, fails \in BOOLEAN : PatchExec(op, fails)
  \/ \E op \in pending : PatchDeliver(op)

Spec == Init /\ [][Next]_vars

\* Creation of orders and bills over the REST API, in both storage modes
\* with the store, the orders and the bills of this scenario share one budget
CreateRoom == useMongo => Len(orders) + Len(bills) <= MaxMongoDocs

NextCreate ==
  \/ Tick
  \/ \E body \in OrderBodies, later \in SecondRead : CreateRoom /\ OrderRoom /\ PostOrders(body, later)
  \/ \E op \in pending, fails \in BOOLEAN : PutOrderExec(op, fails)
  \/ \E op \in pending : PutOrderDone(op)
  \/ \E body \in BillBodies, later \in SecondRead : CreateRoom /\ BillRoom /\ PostBills(body, later)
  \/ \E op \in pending, fails \in BOOLEAN : PutBillExec(op, fails)
  \/ \E op \in pending : PutBillDone(op)

SpecCreate == Init /\ [][NextCreate]_vars

\* Customers place orders, kitchen dashboards poll and act on what they polled;
\* bills are generated on the dashboard at the counter
MaxDashOrders == 1
DashBodies == {b \in OrderBodies : b.items \in {ArrayOf(<<>>), ArrayOf(<<Latte>>)}}
Billers == {1}
InitDash ==
  /\ InitEnv /\ ~useMongo /\ ~twilioClient

NextDash ==
  \/ \E body \in DashBodies, later \in SameRead : Len(orders) < MaxDashOrders /\ PostOrders(body, later)
  \/ \E id \in PatchIds : CustomerRequestBill(id)
  \/ \E c \in Clients : loadOrders(c)
  \/ \E r \in CallsInFlight, outcome \in {"ok"} : FetchLiveOrdersSettled(r, outcome)
  \/ \E r \in CallsInFlight : LoadOrdersResume(r)
  \/ \E c \in Clients : \E o \in ActiveOrders(c) : handleStatusChange(c, o)
  \/ \E r \in CallsInFlight, outcome \in {"ok"} : UpdateOrderStatusSettled(r, outcome)
  \/ \E r \in CallsInFlight : HandleStatusChangeResume(r)
  \/ \E c \in Billers : \E o \in ActiveOrders(c) : OpenBillDialog(c, o)
  \/ \E c \in Billers : CancelBillDialog(c)
  \/ \E c \in Billers : ConfirmBillDialog(c)
  \/ \E c \in Billers : \E o \in ActiveOrders(c) : ClickGenerateBill(c, o)
  \/ \E i \in DOMAIN gen, later \in SameRead : GenPostBill(i, later)
  \/ \E i \in DOMAIN gen : GenPostReturned(i)
  \/ \E i \in DOMAIN gen : GenComplete(i)
  \/ \E i \in DOMAIN gen : GenReturn(i)

SpecDash == InitDash /\ [][NextDash]_vars

\* OTP requests and verifications while time passes
InitOtp == InitEnv /\ ~useMongo /\ ~twilioClient

NextOtp ==
  \/ Tick
  \/ \E raw \in OtpPhones, n \in CodeSamples : PostOtp(raw, n)
  \/ \E raw \in OtpPhones, c \in VerifyCodes : PostOtpVerify(raw, c)

SpecOtp == InitOtp /\ [][NextOtp]_vars

\* OTP requests and their WhatsApp delivery attempts, configured or not
NotifyPhones == {NullStr, ShortPhone, Local0455, Spaced1455, WaPlus1455, Plus4477}
InitNotify == InitEnv /\ ~useMongo

NextNotify ==
  \/ Tick
  \/ \E raw \in NotifyPhones, n \in CodeSamples : PostOtp(raw, n)
  \/ \E task \in notifying, delivered \in BOOLEAN : NotifyDone(task, delivered)

SpecNotify == InitNotify /\ [][NextNotify]_vars

\* Verified phones and the customer store, in both storage modes
CustPhones == {Local0455}
CustStorePhones == {Plus1455}
CustCodes == {StrCode(ToStr(MinCode))}
InitCust == InitEnv /\ ~twilioClient

NextCust ==
  \/ Tick
  \/ \E raw \in CustPhones : PostOtp(raw, MinCode)
  \/ \E raw \in CustPhones, c \in CustCodes : PostOtpVerify(raw, c)
  \/ \E task \in notifying, fails \in BOOLEAN : CustomerUpsertDone(task, fails)
  \/ \E raw \in CustStorePhones, later \in SecondRead : PostCustomers(raw, "Ann", 4, later)
  \/ \E op \in pending, fails \in BOOLEAN : CustomersUpdateOne(op, fails)
  \/ \E op \in pending : PostCustomersResume(op)
  \/ GetCustomers
  \/ \E op \in pending, fails \in BOOLEAN : CustomersFind(op, fails)
  \/ \E op \in pending : GetCustomersResume(op)

SpecCust == InitCust /\ [][NextCust]_vars

\* Bills computed by POST /bills from items of several prices and quantities
ArithPrices == {0, 5, 10, 20, 25, 30, 120, 150}
ArithQuantities == {1, 2, 5}
ArithItem(p, q) == [id |-> "m0", name |-> "Item", price |-> p, quantity |-> q]
ArithBodies ==
  { [tableNumber |-> 4, customerName |-> "Ann", customerPhone |-> NullStr,
     items |-> ArrayOf(v)] :
      v \in {<<ArithItem(p, q)>> : p \in ArithPrices, q \in ArithQuantities}
            \cup {<<Latte, Scone>>} }
InitBill == InitEnv /\ ~useMongo /\ ~twilioClient

NextBill == \E body \in ArithBodies, later \in SecondRead : PostBills(body, later)

SpecBill == InitBill /\ [][NextBill]_vars

\* Calls of normalizePhone and isValidPhone on raw strings: every string of
\* up to MaxRawLen characters over RawAlphabet, null, and longer samples
RawAlphabet == {"0", "4", "+", " ", "-"}
MaxRawLen == 4
RawStrings == UNION {[1..k -> RawAlphabet] : k \in 0..MaxRawLen}
SevenDigits == <<"1", "2", "3", "4", "5", "6", "7">>
PlusSevenDigits == <<"+">> \o SevenDigits
RawPhones ==
  RawStrings \cup {NullStr, Local0455, Plus1455, Spaced1455, WaPlus1455, Plus4477,
                   ShortPhone, SevenDigits, PlusSevenDigits}

\* normalizePhone(raw), and normalizePhone applied to its result
NormalizeCall(raw) ==
  /\ last.op = "start"
  /\ last' = [op |-> "normalizePhone", code |-> 0, message |-> "", phone |-> raw,
              out |-> normalizePhone(raw),
              again |-> normalizePhone(normalizePhone(raw))]
  /\ UNCHANGED <<clock, envVars, ordVars, otpVars, dashVars>>

\* isValidPhone(raw)
ValidCall(raw) ==
  /\ last.op = "start"
  /\ last' = [op |-> "isValidPhone", code |-> 0, message |-> "", phone |-> raw,
              valid |-> isValidPhone(raw)]
  /\ UNCHANGED <<clock, envVars, ordVars, otpVars, dashVars>>

InitPhone == InitEnv /\ ~useMongo /\ ~twilioClient

NextPhone ==
  \/ \E raw \in RawPhones : NormalizeCall(raw)
  \/ \E raw \in RawPhones : ValidCall(raw)

SpecPhone == InitPhone /\ [][NextPhone]_vars

\* bills.filter(b => b.customerPhone === norm): the ids, in the order of bills
RECURSIVE BillsOfCustomer(_, _)
BillsOfCustomer(list, norm) ==
  IF list = <<>> THEN <<>>
  ELSE IF Head(list).customerPhone = norm
  THEN <<Head(list).id>> \o BillsOfCustomer(Tail(list), norm)
  ELSE BillsOfCustomer(Tail(list), norm)

\* find({customerPhone: norm}).sort({createdAt: -1}): the orders in which the
\* store may return the ids of the matching documents
MongoBillsOfCustomer(coll, norm) ==
  LET D == {k \in DOMAIN coll : coll[k].customerPhone = norm}
  IN  {s \in [1..Cardinality(D) -> D] :
         /\ \A i, j \in DOMAIN s : i # j => s[i] # s[j]
         /\ \A i, j \in DOMAIN s : i < j => coll[s[i]].createdAt >= coll[s[j]].createdAt}

\* app.get('/bills/by-customer/:phone') up to its response, or up to its await
\* of find(...).toArray() when the store is enabled
GetBillsByCustomer(raw) ==
  /\ IF ~isValidPhone(raw)
     THEN /\ pending' = pending
          /\ last' = [op |-> "GET /bills/by-customer", code |-> 400,
                      message |-> "invalid phone format", phone |-> raw]
     ELSE IF useMongo
     THEN /\ Cardinality(pending) < MaxPending
          /\ pending' = pending \cup
               {[kind |-> "findBills", call |-> FreshCall(pending), stage |-> "sent", raw |-> raw,
                 norm |-> normalizePhone(raw), result |-> "", list |-> <<>>]}
          /\ last' = [op |-> "await bills.find", code |-> 0, message |-> "", phone |-> raw]
     ELSE /\ pending' = pending
          /\ last' = [op |-> "GET /bills/by-customer", code |-> 200, message |-> "",
                      phone |-> raw, list |-> BillsOfCustomer(bills, normalizePhone(raw))]
  /\ UNCHANGED <<orders, bills, billedAt, mongoOrders, mongoBills>>
  /\ UNCHANGED <<clock, envVars, otpVars, dashVars>>

\* the store reads the bills of the phone for the request, or throws
BillsFind(op, fails) ==
  /\ op \in pending /\ op.kind = "findBills" /\ op.stage = "sent"
  /\ IF fails
     THEN pending' = (pending \ {op}) \cup
            {[op EXCEPT !.stage = "returned", !.result = "error"]}
     ELSE \E list \in MongoBillsOfCustomer(mongoBills, op.norm) :
            pending' = (pending \ {op}) \cup
              {[op EXCEPT !.stage = "returned", !.result = "ok", !.list = list]}
  /\ last' = [op |-> "store find", code |-> 0,
              message |-> IF fails THEN "failed" ELSE "read"]
  /\ UNCHANGED <<orders, bills, billedAt, mongoOrders, mongoBills>>
  /\ UNCHANGED <<clock, envVars, otpVars, dashVars>>

\* app.get('/bills/by-customer/:phone') after its await: the documents read,
\* 500 from the catch
GetBillsByCustomerResume(op) ==
  /\ op \in pending /\ op.kind = "findBills" /\ op.stage = "returned"
  /\ pending' = pending \ {op}
  /\ last' = IF op.result = "ok"
             THEN [op |-> "GET /bills/by-customer", code |-> 200, message |-> "",
                   phone |-> op.raw, list |-> op.list]
             ELSE [op |-> "GET /bills/by-customer", code |-> 500,
                   message |-> "store error", phone |-> op.raw]
  /\ UNCHANGED <<orders, bills, billedAt, mongoOrders, mongoBills>>
  /\ UNCHANGED <<clock, envVars, otpVars, dashVars>>

\* The operations that take a phone, in both storage modes
UsePhones == {ShortPhone, SevenDigits, Spaced1455}
OtpUsePhones == {ShortPhone, SevenDigits}
StoreUsePhones == {ShortPhone, Spaced1455}
PhoneBillBodies ==
  { [tableNumber |-> 4, customerName |-> "Ann", customerPhone |-> raw,
     items |-> ArrayOf(<<Latte>>)] : raw \in StoreUsePhones \cup {EmptyPhone} }
InitPhoneUse == InitEnv /\ ~twilioClient

\* No call of an earlier request is in flight: in this scenario a request
\* other than POST /customers is taken in such a state only
StoreIdle == pending = {} /\ notifying = {}

NextPhoneUse ==
  \/ \E raw \in RawPhones : ValidCall(raw)
  \/ \E raw \in OtpUsePhones : StoreIdle /\ PostOtp(raw, MinCode)
  \/ \E raw \in OtpUsePhones :
       StoreIdle /\ PostOtpVerify(raw, StrCode(ToStr(MinCode)))
  \/ \E task \in notifying, fails \in BOOLEAN : CustomerUpsertDone(task, fails)
  \/ \E body \in PhoneBillBodies, later \in SameRead : StoreIdle /\ BillRoom /\ PostBills(body, later)
  \/ \E op \in pending, fails \in BOOLEAN : PutBillExec(op, fails)
  \/ \E op \in pending : PutBillDone(op)
  \/ \E raw \in StoreUsePhones, later \in SameRead : PostCustomers(raw, "Ann", 4, later)
  \/ \E op \in pending, fails \in BOOLEAN : CustomersUpdateOne(op, fails)
  \/ \E op \in pending : PostCustomersResume(op)
  \/ \E raw \in StoreUsePhones : StoreIdle /\ GetBillsByCustomer(raw)
  \/ \E op \in pending, fails \in BOOLEAN : BillsFind(op, fails)
  \/ \E op \in pending : GetBillsByCustomerResume(op)

SpecPhoneUse == InitPhoneUse /\ [][NextPhoneUse]_vars

\* Bills created one after the other, in both storage modes
StoredBillBodies ==
  { [tableNumber |-> 4, customerName |-> "Ann", customerPhone |-> Local0455,
     items |-> ArrayOf(<<Latte>>)],
    [tableNumber |-> 0, customerName |-> "", customerPhone |-> EmptyPhone,
     items |-> ArrayOf(<<Scone>>)] }
InitBillStore == InitEnv /\ ~twilioClient

NextBillStore ==
  \/ Tick
  \/ \E body \in StoredBillBodies, later \in SecondRead : PostBills(body, later)
  \/ \E op \in pending, fails \in BOOLEAN : PutBillExec(op, fails)
  \/ \E op \in pending : PutBillDone(op)

SpecBillStore == InitBillStore /\ [][NextBillStore]_vars

\* PATCH requests in flight together: with the persistent store a handler is
\* suspended on its await while another PATCH is handled
ConcurrentOrderBody ==
  [tableNumber |-> 4, customerName |-> "Ann", items |-> ArrayOf(<<Latte>>), totalAmount |-> NullNum]
ConcurrentStatuses == {"PREPARING", "READY"}

InitPatch == InitEnv /\ ~twilioClient

\* a PATCH is taken while fewer than MaxPatches calls, the updateOne of a
\* POST /orders included, are suspended on the store
NextPatch ==
  \/ \E later \in SameRead : Len(orders) < MaxMongoDocs /\ PostOrders(ConcurrentOrderBody, later)
  \/ \E op \in pending, fails \in BOOLEAN : PutOrderExec(op, fails)
  \/ \E op \in pending : PutOrderDone(op)
  \/ \E id \in PatchIds, status \in ConcurrentStatuses :
       Cardinality(pending) < MaxPatches /\ PatchOrders(id, status)
  \/ \E op \in pending, fails \in BOOLEAN : PatchExec(op, fails)
  \/ \E op \in pending : PatchDeliver(op)

SpecPatch == InitPatch /\ [][NextPatch]_vars

\* Every status a PATCH body may carry, asked of a stored order, one request
\* at a time
NextAnyStatus ==
  \/ \E later \in SameRead : Len(orders) < MaxMongoDocs /\ PostOrders(ConcurrentOrderBody, later)
  \/ \E op \in pending, fails \in BOOLEAN : PutOrderExec(op, fails)
  \/ \E op \in pending : PutOrderDone(op)
  \/ \E id \in PatchIds, status \in PatchStatuses : PendingRoom /\ PatchOrders(id, status)
  \/ \E op \in pending, fails \in BOOLEAN : PatchExec(op, fails)
  \/ \E op \in pending : PatchDeliver(op)

SpecStatus == Init /\ [][NextAnyStatus]_vars

\* Bills created at chosen instants of two days, and reports for those days
ItemA   == [id |-> <<"a">>, name |-> <<"A">>, price |-> 20, quantity |-> 5]
ItemB   == [id |-> <<"b">>, name |-> <<"B">>, price |-> 25, quantity |-> 2]
ItemB3  == [id |-> <<"b">>, name |-> <<"B">>, price |-> 25, quantity |-> 3]
Item10  == [id |-> <<"1", "0">>, name |-> <<"T">>, price |-> 30, quantity |-> 1]
Item2   == [id |-> <<"2">>, name |-> <<"U">>, price |-> 10, quantity |-> 1]
ItemTea == [id |-> NullStr, name |-> <<"T", "e", "a">>, price |-> 10, quantity |-> 3]
ItemStr == [id |-> <<"t", "o", "S", "t", "r", "i", "n", "g">>, name |-> <<"S">>, price |-> 0,
            quantity |-> 4]
ReportBodies ==
  { [tableNumber |-> 4, customerName |-> "Ann", customerPhone |-> NullStr,
     items |-> ArrayOf(<<ItemA, ItemB>>)],
    [tableNumber |-> 5, customerName |-> "", customerPhone |-> NullStr,
     items |-> ArrayOf(<<Item10, Item2>>)],
    [tableNumber |-> 6, customerName |-> "Ann", customerPhone |-> NullStr,
     items |-> ArrayOf(<<ItemTea, ItemStr, ItemB3>>)] }

\* 09:30:00.000, 09:59:59.999, 23:59:59.000 and 23:59:59.500 of day 1, and
\* 00:00:00.000 of day 2
ReportInstants ==
  { DayStart(1) + 9 * HourMs + 1800000, DayStart(1) + 10 * HourMs - 1,
    DayEnd(1), DayEnd(1) + 500, DayStart(2) }
ReportDates == {1, 2}

\* time passes: Date.now() is read later
Advance(t) ==
  /\ t > clock
  /\ clock' = t
  /\ UNCHANGED <<last, envVars, ordVars, otpVars, dashVars>>

InitReport == InitEnv /\ ~useMongo /\ ~twilioClient

NextReport ==
  \/ \E t \in ReportInstants : Advance(t)
  \/ \E body \in ReportBodies, later \in SecondRead : PostBills(body, later)
  \/ \E date \in ReportDates : GetDailyReport(date)

SpecReport == InitReport /\ [][NextReport]_vars

\* Reports among the other requests: orders and OTP records are in the stores
FrameInstants == {DayStart(1) + 9 * HourMs + 1800000, DayStart(2)}

NextReportFrame ==
  \/ \E t \in FrameInstants : Advance(t)
  \/ \E body \in ReportBodies, later \in SecondRead : PostBills(body, later)
  \/ \E date \in ReportDates : GetDailyReport(date)
  \/ \E later \in SameRead : Len(orders) < MaxMongoDocs /\ PostOrders(ConcurrentOrderBody, later)
  \/ PostOtp(Local0455, MinCode)

SpecReportFrame == InitReport /\ [][NextReportFrame]_vars

\* The process from its start: requests are handled once the server listens
InitStart ==
  /\ InitStores /\ InitServices /\ InitProcEnv
  /\ useMongo = FALSE /\ twilioClient = FALSE
  /\ \E required \in BOOLEAN : startup = Booting(required)

NextStart ==
  \/ \E ok \in BOOLEAN : ConnectDone(ok)
  \/ WaitTick
  \/ FailFast
  \/ Listen
  \/ startup.server = "listening" /\ Tick
  \/ \E body \in OrderBodies, later \in SecondRead : startup.server = "listening" /\ OrderRoom /\ PostOrders(body, later)
  \/ \E op \in pending, fails \in BOOLEAN : PutOrderExec(op, fails)
  \/ \E op \in pending : PutOrderDone(op)

SpecStart == InitStart /\ [][NextStart]_vars

\* a call of the server's sendWhatsAppMessage, from its call to its return
SendWhatsAppCall(outcome) ==
  /\ last' = [op |-> "sendWhatsAppMessage", code |-> 0, message |-> outcome,
              result |-> sendWhatsAppMessage(twilioClient, outcome)]
  /\ UNCHANGED <<clock, envVars, ordVars, otpVars, dashVars>>

\* The three send functions: the service modules CreditsLeft sends short of
\* their credit limits (the state after credits - CreditsLeft successful
\* sends), the server's sender with and without Twilio configured
CreditsLeft == 2
InitSend ==
  /\ InitStores /\ InitProcEnv
  /\ useMongo = FALSE /\ twilioClient \in BOOLEAN
  /\ startup = Listening(FALSE)
  /\ whatsappSettings = [enabled |-> FALSE, apiKey |-> "", phoneNumber |-> "",
                         credits |-> WhatsappCredits, used |-> WhatsappCredits - CreditsLeft]
  /\ smsSettings = [enabled |-> FALSE, provider |-> "twilio", apiKey |-> "", apiSecret |-> "",
                    phoneNumber |-> "", credits |-> SmsCredits, used |-> SmsCredits - CreditsLeft]
  /\ sending = [whatsapp |-> 0, sms |-> 0]

NextSend ==
  \/ \E new \in SettingsUpdates : updateWhatsappSettings(new)
  \/ \E new \in SettingsUpdates, provider \in SmsProviderInputs, apiSecret \in SmsSecretInputs :
       updateSmsSettings(new, provider, apiSecret)
  \/ SendWhatsappStart
  \/ \E outcome \in ProviderOutcomes : SendWhatsappDone(outcome)
  \/ SendSmsStart
  \/ \E outcome \in ProviderOutcomes : SendSmsDone(outcome)
  \/ \E outcome \in TwilioOutcomes : SendWhatsAppCall(outcome)

SpecSend == InitSend /\ [][NextSend]_vars

\* app.get('/debug/otps'): the route exists when NODE_ENV is not 'production';
\* without it the request gets the 404 page of Express
DebugOtpsRegistered(env) == env.NODE_ENV # "production"
GetDebugOtps ==
  /\ last' = IF DebugOtpsRegistered(procEnv)
             THEN [op |-> "GET /debug/otps", code |-> 200, message |-> "",
                   body |-> [success |-> TRUE, otps |-> otps]]
             ELSE [op |-> "GET /debug/otps", code |-> 404, message |-> "",
                   body |-> [html |-> "Cannot GET /debug/otps"]]
  /\ UNCHANGED <<clock, envVars, ordVars, otpVars, dashVars>>

\* The OTP routes under every setting of NODE_ENV and DEBUG_OTPS
NodeEnvs == {"", "development", "production"}
DebugOtpsValues == {"", "true", "false"}
EnvPhones == {ShortPhone, Local0455}
InitOtpEnv ==
  /\ InitStores /\ InitServices
  /\ useMongo = FALSE /\ twilioClient = FALSE
  /\ startup = Listening(FALSE)
  /\ procEnv \in [NODE_ENV : NodeEnvs, DEBUG_OTPS : DebugOtpsValues]

NextOtpEnv ==
  \/ \E raw \in EnvPhones, n \in CodeSamples : PostOtp(raw, n)
  \/ \E raw \in EnvPhones, c \in VerifyCodes : PostOtpVerify(raw, c)
  \/ GetDebugOtps

SpecOtpEnv == InitOtpEnv /\ [][NextOtpEnv]_vars

\* startServer with any set of the ports basePort .. basePort + maxRetries
\* taken by other processes, with and without USE_MONGO "true"
InitPorts ==
  /\ InitStores /\ InitServices /\ InitProcEnv
  /\ useMongo = FALSE /\ twilioClient = FALSE
  /\ \E required \in BOOLEAN, taken \in SUBSET TryPorts :
       startup = [Booting(required) EXCEPT !.inUse = taken]

NextPorts ==
  \/ \E ok \in BOOLEAN : ConnectDone(ok)
  \/ WaitTick
  \/ FailFast
  \/ Listen
  \/ PortInUse
  \/ ListenError

SpecPorts == InitPorts /\ [][NextPorts]_vars /\ WF_vars(NextPorts)

\* One dashboard generating bills over a network that can drop a request or a
\* response
NetClients == {1}
InitDashNet == InitDash

NextDashNet ==
  \/ \E body \in DashBodies, later \in SameRead : Len(orders) < MaxDashOrders /\ PostOrders(body, later)
  \/ \E id \in PatchIds : CustomerRequestBill(id)
  \/ \E c \in NetClients : loadOrders(c)
  \/ \E r \in CallsInFlight, outcome \in FetchOutcomes : FetchLiveOrdersSettled(r, outcome)
  \/ \E r \in CallsInFlight : LoadOrdersResume(r)
  \/ \E c \in NetClients : \E o \in ActiveOrders(c) : handleStatusChange(c, o)
  \/ \E r \in CallsInFlight, outcome \in {"ok", "rejected"} : UpdateOrderStatusSettled(r, outcome)
  \/ \E r \in CallsInFlight : HandleStatusChangeResume(r)
  \/ \E c \in NetClients : \E o \in ActiveOrders(c) : OpenBillDialog(c, o)
  \/ \E c \in NetClients : CancelBillDialog(c)
  \/ \E c \in NetClients : ConfirmBillDialog(c)
  \/ \E c \in NetClients : \E o \in ActiveOrders(c) : ClickGenerateBill(c, o)
  \/ \E i \in DOMAIN gen, later \in SameRead : GenPostBill(i, later)
  \/ \E i \in DOMAIN gen : GenPostReturned(i)
  \/ \E i \in DOMAIN gen : GenComplete(i)
  \/ \E i \in DOMAIN gen : GenPostFailed(i)
  \/ \E i \in DOMAIN gen : GenPatchFailed(i)
  \/ \E i \in DOMAIN gen : GenReturn(i)

SpecDashNet == InitDashNet /\ [][NextDashNet]_vars

\* the amounts the bill confirmation dialog shows for billOrder
BillPreview(o) ==
  LET subtotal == OrNum(o.totalAmount, 0)
      tax      == RoundPct(subtotal, TaxPct)
      service  == RoundPct(subtotal, ServicePct)
  IN  [subtotal |-> subtotal, tax |-> tax, service |-> service,
       total |-> subtotal + tax + service]
\* the same amounts of a stored bill
BillAmounts(b) ==
  [subtotal |-> b.subtotal, tax |-> b.tax, service |-> b.service, total |-> b.total]

\* One dashboard billing orders created with and without totalAmount, with
\* items that lack a price or a quantity
NoPrice    == [id |-> "m3", name |-> "Water", price |-> NullNum, quantity |-> 2]
NoQuantity == [id |-> "m4", name |-> "Tea", price |-> 30, quantity |-> NullNum]
PreviewBodies ==
  { [tableNumber |-> 4, customerName |-> "Ann", items |-> ArrayOf(<<Latte>>), totalAmount |-> NullNum],
    [tableNumber |-> 4, customerName |-> "Ann", items |-> ArrayOf(<<Latte>>), totalAmount |-> 200],
    [tableNumber |-> 4, customerName |-> "Ann", items |-> ArrayOf(<<NoPrice, NoQuantity>>),
     totalAmount |-> NullNum],
    [tableNumber |-> 4, customerName |-> "Ann", items |-> ArrayOf(<<Latte, Scone>>), totalAmount |-> 0] }

NextPreview ==
  \/ \E body \in PreviewBodies, later \in SameRead : Len(orders) < MaxDashOrders /\ PostOrders(body, later)
  \/ \E c \in NetClients : loadOrders(c)
  \/ \E r \in CallsInFlight, outcome \in {"ok"} : FetchLiveOrdersSettled(r, outcome)
  \/ \E r \in CallsInFlight : LoadOrdersResume(r)
  \/ \E c \in NetClients : \E o \in ActiveOrders(c) : handleStatusChange(c, o)
  \/ \E r \in CallsInFlight, outcome \in {"ok"} : UpdateOrderStatusSettled(r, outcome)
  \/ \E r \in CallsInFlight : HandleStatusChangeResume(r)
  \/ \E c \in NetClients : \E o \in ActiveOrders(c) : OpenBillDialog(c, o)
  \/ \E c \in NetClients : CancelBillDialog(c)
  \/ \E c \in NetClients : ConfirmBillDialog(c)
  \/ \E i \in DOMAIN gen, later \in SameRead : GenPostBill(i, later)
  \/ \E i \in DOMAIN gen : GenPostReturned(i)
  \/ \E i \in DOMAIN gen : GenComplete(i)
  \/ \E i \in DOMAIN gen : GenReturn(i)

SpecPreview == InitDash /\ [][NextPreview]_vars

-----------------------------------------------------------------------------
(* Claims about the order lifecycle.                                       *)

\* C1: once an order's status is COMPLETED, no later step (no PATCH
\* /orders/:id, whatever status it asks for) changes that order's status.
C1_CompletedIsTerminal ==
  [][\A i \in DOMAIN orders :
       orders[i].status = "COMPLETED" => orders'[i].status = "COMPLETED"]_vars

\* C2: an order is created PENDING and every change of an order's status is
\* one of the transitions of the transition table.
C2_ChangesFollowTable ==
  [][/\ \A i \in DOMAIN orders' \ DOMAIN orders : orders'[i].status = "PENDING"
     /\ \A i \in DOMAIN orders :
          \/ orders'[i].status = orders[i].status
          \/ <<orders[i].status, orders'[i].status>> \in TransitionTable]_vars

\* C3: whenever generateBillForOrder stores a bill for an order, the server
\* holds that order with status READY or BILL_REQUESTED at that moment.
C3_BillOnlyWhenReadyOrRequested ==
  \A i \in DOMAIN billedAt :
    billedAt[i].order # NoOrderId => billedAt[i].status \in {"READY", "BILL_REQUESTED"}

-----------------------------------------------------------------------------
(* Claims about OTP codes.                                                 *)

\* C4: a code is single-use. No code is verified successfully more than once;
\* a successful POST /otp/verify removes the phone's record, and a verify for
\* a phone whose code was already verified, with no POST /otp for that phone
\* since, answers 400 "No OTP requested". The handler runs to its response
\* without yielding, so two requests in flight are served one after the other.
C4_SingleUse ==
  /\ [](\A k \in DOMAIN otpSeen : otpSeen[k].used <= 1)
  /\ [][last'.op = "POST /otp/verify" =>
          LET raw == last'.phone
              c   == last'.given
              key == normalizePhone(raw)
          IN  /\ last'.code = 200 => key \notin DOMAIN otps'
              /\ ( /\ PhonePresent(raw) /\ isValidPhone(raw) /\ ~CodeMissing(c)
                   /\ key \in DOMAIN otpSeen
                   /\ otpSeen[key].used >= 1 )
                 => last'.code = 400 /\ last'.message = "No OTP requested"]_vars

\* a verify for a phone whose code was verified before is answered
\* "No OTP requested"
C4_SecondVerifyRefused ==
  /\ last.op = "POST /otp/verify" /\ last.message = "No OTP requested"
  /\ normalizePhone(last.phone) \in DOMAIN otpSeen
  /\ otpSeen[normalizePhone(last.phone)].used = 1

\* C5 as stated: after a second POST /otp for a phone with an outstanding
\* code, a verify with the first code fails with "Invalid code".
C5_SecondRequestInvalidatesFirst ==
  [][(last'.op = "POST /otp" /\ last'.code = 200) =>
       LET raw == last'.phone
           key == normalizePhone(raw)
       IN  key \in DOMAIN otps
           => VerifyRejection(otps', raw, StrCode(otps[key].code)) = "Invalid code"]_vars

\* C5: a second POST /otp for a phone replaces the outstanding code by the
\* newly drawn one; a verify with the first code then fails with "Invalid
\* code" when the second draw differs from the first, and succeeds when the
\* two draws are equal.
C5_SecondRequestReplacesCode ==
  [][/\ (last'.op = "POST /otp" /\ last'.code = 200) =>
          LET raw == last'.phone
              key == normalizePhone(raw)
          IN  key \in DOMAIN otps
              => LET first == otps[key].code
                 IN  /\ key \in DOMAIN otps'
                     /\ otps'[key].code = last'.issued
                     /\ VerifyRejection(otps', raw, StrCode(first))
                          = IF first = last'.issued THEN "" ELSE "Invalid code"
     /\ last'.op = "POST /otp/verify" =>
          LET raw == last'.phone
              c   == last'.given
              key == normalizePhone(raw)
          IN  ( /\ PhonePresent(raw) /\ isValidPhone(raw) /\ ~CodeMissing(c)
                /\ key \in DOMAIN otps
                /\ otpSeen[key].prev = StringOf(c)
                /\ otps[key].code # StringOf(c) )
              => last'.code = 400 /\ last'.message = "Invalid code"]_vars

\* a verify with the first code was refused with "Invalid code" for a phone
\* whose outstanding code replaced that first, unconsumed code
C5_FirstCodeRefused ==
  /\ last.op = "POST /otp/verify" /\ last.message = "Invalid code"
  /\ normalizePhone(last.phone) \in DOMAIN otps
  /\ otpSeen[normalizePhone(last.phone)].prev = StringOf(last.given)
  /\ otpSeen[normalizePhone(last.phone)].prev # otps[normalizePhone(last.phone)].code

\* C6: the OTP table holds one record per normalized phone. No two keys of
\* the table have the same normalization; an accepted POST /otp leaves the
\* drawn code as the only record of the phone's normalization, whatever
\* spelling created the record before; a verify with the stored code succeeds
\* under every spelling with that normalization and leaves no record of it.
C6_OneRecordPerNormalizedPhone ==
  /\ [](\A k1, k2 \in DOMAIN otps : k1 # k2 => normalizePhone(k1) # normalizePhone(k2))
  /\ [][/\ (last'.op = "POST /otp" /\ last'.code = 200) =>
             LET key == normalizePhone(last'.phone)
             IN  /\ \E k \in DOMAIN otps' : normalizePhone(k) = key
                 /\ \A k \in DOMAIN otps' :
                      normalizePhone(k) = key => otps'[k].code = last'.issued
        /\ last'.op = "POST /otp/verify" =>
             LET c   == last'.given
                 key == normalizePhone(last'.phone)
             IN  /\ ( /\ ~CodeMissing(c)
                      /\ \E k \in DOMAIN otps :
                           normalizePhone(k) = key /\ otps[k].code = StringOf(c) )
                    => last'.code = 200
                 /\ last'.code = 200
                    => \A k \in DOMAIN otps' : normalizePhone(k) # key]_vars

\* a code was verified under a spelling other than the one it was requested
\* under
C6_VerifiedUnderOtherSpelling ==
  /\ last.op = "POST /otp/verify" /\ last.code = 200
  /\ otpSeen[normalizePhone(last.phone)].used = 1
  /\ otpSeen[normalizePhone(last.phone)].raw # last.phone
  /\ normalizePhone(last.phone) \notin DOMAIN otps

\* C7: a POST /otp/verify answered 400 leaves the OTP table as it was. With a
\* phone and a code in the body the answer is "Invalid phone format" for an
\* invalid phone, else "No OTP requested" when the table has no record of the
\* phone, else "Invalid code" when the stored code differs, else success:
\* whatever the number of wrong attempts before and the age of the record.
C7_FailedVerifyKeepsTable ==
  [][last'.op = "POST /otp/verify" =>
       LET raw == last'.phone
           c   == last'.given
           key == normalizePhone(raw)
       IN  /\ last'.code \in {200, 400}
           /\ last'.code = 400 => otps' = otps
           /\ (PhonePresent(raw) /\ ~CodeMissing(c)) =>
                IF ~isValidPhone(raw)
                THEN last'.code = 400 /\ last'.message = "Invalid phone format"
                ELSE IF key \notin DOMAIN otps
                THEN last'.code = 400 /\ last'.message = "No OTP requested"
                ELSE IF otps[key].code # StringOf(c)
                THEN last'.code = 400 /\ last'.message = "Invalid code"
                ELSE last'.code = 200]_vars

\* a code was verified after MaxWrong wrong-code attempts and after time
\* passed
C7_VerifiedAfterWrongAttempts ==
  /\ last.op = "POST /otp/verify" /\ last.code = 200
  /\ otpSeen[normalizePhone(last.phone)].used = 1
  /\ otpSeen[normalizePhone(last.phone)].wrong = MaxWrong
  /\ clock = MaxClock

\* C8: in both storage modes, once a verification of a phone has succeeded
\* (and no upsert for it is still in flight) the customer store holds a
\* record keyed by the normalized phone with verifiedAt set.
C8_VerifiedPhoneHasCustomer ==
  \A k \in DOMAIN otpSeen :
    (otpSeen[k].used >= 1 /\ \A t \in notifying : t.phone # k)
    => k \in DOMAIN mongoCustomers /\ mongoCustomers[k].verifiedAt # NullNum

\* C9: POST /otp with a valid phone answers 200 and leaves the drawn code as
\* the phone's record; when WhatsApp is configured the delivery attempt is
\* still in flight at the response, when it is not no attempt is made; the end
\* of an attempt, delivered or not, leaves the OTP table as it is. POST /otp
\* with a missing or invalid phone answers 400 and leaves the table as it is.
C9_OtpStoredWhateverDelivery ==
  [][/\ last'.op = "POST /otp" =>
          LET raw == last'.phone
              key == normalizePhone(raw)
          IN  IF PhonePresent(raw) /\ isValidPhone(raw)
              THEN /\ last'.code = 200
                   /\ key \in DOMAIN otps'
                   /\ otps'[key].code = last'.issued
                   /\ IF twilioClient
                      THEN \E t \in notifying' \ notifying :
                             /\ t.kind = "whatsapp" /\ t.phone = key
                             /\ t.code = last'.issued
                             /\ notifying' = notifying \cup {t}
                      ELSE notifying' = notifying
              ELSE last'.code = 400 /\ otps' = otps
     /\ last'.op = "sendWhatsAppMessage" => otps' = otps]_vars

\* a delivery attempt failed and the code it carried is still the phone's
\* record
C9_CodeKeptAfterFailedDelivery ==
  /\ last.op = "sendWhatsAppMessage" /\ last.message = "failed"
  /\ last.phone \in DOMAIN otps

-----------------------------------------------------------------------------
(* Claims about the creation of orders and bills.                          *)

\* C10: POST /orders and POST /bills whose items are absent, not an array or
\* an empty array answer 400 and leave the orders and bills, in memory and in
\* the persistent store, as they were; so does POST /bills with a
\* customerPhone that is present and invalid. Every stored order and every
\* stored bill has a non-empty items list.
C10_InvalidCreationRejected ==
  /\ [](/\ \A i \in DOMAIN orders : orders[i].items # <<>>
        /\ \A i \in DOMAIN bills : bills[i].items # <<>>
        /\ \A k \in DOMAIN mongoOrders : mongoOrders[k].items # <<>>
        /\ \A k \in DOMAIN mongoBills : mongoBills[k].items # <<>>)
  /\ [][/\ \A body \in OrderBodies :
             (\E later \in SecondRead :
                PostOrders(body, later) /\ (body.items.t # "array" \/ body.items.v = <<>>))
             => last'.code = 400 /\ UNCHANGED ordVars
        /\ \A body \in BillBodies :
             ( /\ \E later \in SecondRead : PostBills(body, later)
               /\ \/ body.items.t # "array" \/ body.items.v = <<>>
                  \/ PhonePresent(body.customerPhone) /\ ~isValidPhone(body.customerPhone) )
             => last'.code = 400 /\ UNCHANGED ordVars]_vars

\* a bill with a present, invalid phone was refused while orders and bills
\* are stored
C10_InvalidPhoneBillRefused ==
  /\ last.op = "POST /bills" /\ last.code = 400
  /\ last.message = "invalid phone format"
  /\ orders # <<>> /\ bills # <<>>

-----------------------------------------------------------------------------
(* Claims about amounts.                                                   *)

\* C11: every stored bill has subtotal = the sum of price * quantity over its
\* items, tax = subtotal * 5 / 100 and service = subtotal * 2 / 100, each
\* rounded to the nearest integer with halves rounded up and each computed
\* from subtotal, and total = subtotal + tax + service.
C11_BillArithmetic ==
  \A i \in DOMAIN bills :
    LET b == bills[i]
        sum[k \in 0..Len(b.items)] ==
          IF k = 0 THEN 0 ELSE sum[k - 1] + b.items[k].price * b.items[k].quantity
    IN  /\ b.subtotal = sum[Len(b.items)]
        /\ 100 * b.tax - 5 * b.subtotal \in -49..50
        /\ 100 * b.service - 2 * b.subtotal \in -49..50
        /\ b.total = b.subtotal + b.tax + b.service

\* the bills of the examples are stored: 240 -> 12, 5, 257 and 150 -> 8, 3,
\* 161 (7.5 rounded up)
C11_ExampleBillsStored ==
  /\ \E i \in DOMAIN bills :
       /\ bills[i].subtotal = 240 /\ bills[i].tax = 12
       /\ bills[i].service = 5 /\ bills[i].total = 257
  /\ \E i \in DOMAIN bills :
       /\ bills[i].subtotal = 150 /\ bills[i].tax = 8
       /\ bills[i].service = 3 /\ bills[i].total = 161

\* C12: an order stored by POST /orders has the totalAmount its request
\* supplied, an explicit 0 included, and the sum of price * quantity over its
\* items when the request supplied none.
C12_TotalAmountAsSupplied ==
  [][\A body \in OrderBodies :
       ((\E later \in SecondRead : PostOrders(body, later)) /\ Len(orders') = Len(orders) + 1)
       => LET o == orders'[Len(orders')]
              sum[k \in 0..Len(o.items)] ==
                IF k = 0 THEN 0 ELSE sum[k - 1] + o.items[k].price * o.items[k].quantity
          IN  o.totalAmount = IF body.totalAmount # NullNum THEN body.totalAmount
                              ELSE sum[Len(o.items)]]_vars

-----------------------------------------------------------------------------
(* Claims about phone normalization and validation.                        *)

\* C13: normalizePhone is idempotent: applied to its own result, null
\* included, it returns that result.
C13_NormalizeIdempotent ==
  last.op = "normalizePhone" => last.again = last.out

\* a string with separators and leading zeros was normalized to a different
\* string, which normalizes to itself
C13_ChangedThenFixed ==
  /\ last.op = "normalizePhone"
  /\ last.phone = <<" ", "0", "-", "4">>
  /\ last.out = <<"+", "1", "4">>
  /\ last.again = last.out

\* C14: every non-null result of normalizePhone is one '+' followed only by
\* digits.
C14_PlusThenDigitsOnly ==
  (last.op = "normalizePhone" /\ last.out # NullStr)
  => /\ Len(last.out) >= 1 /\ last.out[1] = "+"
     /\ \A i \in 2..Len(last.out) : last.out[i] \in Digits

\* C15 as stated: null for null or empty input; for input whose first
\* character is not '+', the default country code followed by the input's
\* digits and '+' characters with the leading zeros stripped; input that is
\* '+' followed by digits unchanged.
C15_CountryCodeUnlessRawStartsWithPlus ==
  last.op = "normalizePhone" =>
    LET raw == last.phone
    IN  IF raw = NullStr \/ raw = <<>> THEN last.out = NullStr
        ELSE /\ Head(raw) # "+"
                => last.out = DefaultCountryCode
                                \o StripLeadingZeros(SelectSeq(raw, IsDigitOrPlus))
             /\ (Head(raw) = "+" /\ \A i \in 2..Len(raw) : raw[i] \in Digits)
                => last.out = raw

\* C15: null for null or empty input; otherwise, with v the input trimmed,
\* without a leading "whatsapp:" and without the characters that are neither
\* digits nor '+': the default country code followed by v without its
\* leading zeros when v does not start with '+', and v itself when it does;
\* so input that is '+' followed by digits is returned unchanged.
C15_CountryCodeUnlessCleanedStartsWithPlus ==
  last.op = "normalizePhone" =>
    LET raw == last.phone
        t   == Trim(raw)
        u   == IF StartsWith(t, WhatsappPrefix)
               THEN SubSeq(t, Len(WhatsappPrefix) + 1, Len(t)) ELSE t
        v   == SelectSeq(u, IsDigitOrPlus)
    IN  IF raw = NullStr \/ raw = <<>> THEN last.out = NullStr
        ELSE /\ last.out = IF v # <<>> /\ Head(v) = "+" THEN v
                           ELSE DefaultCountryCode \o StripLeadingZeros(v)
             /\ (Head(raw) = "+" /\ \A i \in 2..Len(raw) : raw[i] \in Digits)
                => last.out = raw

\* "0455123456" was normalized to "+1455123456"
C15_LocalNumberGetsCountryCode ==
  /\ last.op = "normalizePhone"
  /\ last.phone = Local0455
  /\ last.out = Plus1455


(* Claims about the use of phones by the operations.                       *)
\* C16: isValidPhone(raw) holds exactly when normalizePhone(raw) is non-null
\* and has at least 8 digits, those of a prepended country code included;
\* every phone accepted by POST /otp, POST /otp/verify, POST /bills,
\* POST /customers and GET /bills/by-customer is valid, and every stored phone
\* key (OTP key, bill customerPhone, customer phone) is the normalizePhone result
\* of a valid phone.
C16_AcceptedPhonesValidKeysNormalized ==
  /\ [](LET Digits8(n) == Cardinality({i \in DOMAIN n : n[i] \in Digits}) >= 8
            Key(k) == /\ \E raw \in UsePhones :
                           /\ normalizePhone(raw) # NullStr /\ Digits8(normalizePhone(raw))
                           /\ k = normalizePhone(raw)
                      /\ normalizePhone(k) = k
        IN  /\ \A k \in DOMAIN otps : Key(k)
            /\ \A i \in DOMAIN bills :
                 bills[i].customerPhone # NullStr => Key(bills[i].customerPhone)
            /\ \A id \in DOMAIN mongoBills :
                 mongoBills[id].customerPhone # NullStr => Key(mongoBills[id].customerPhone)
            /\ \A k \in DOMAIN mongoCustomers : Key(k))
  /\ [][LET Digits8(n) == Cardinality({i \in DOMAIN n : n[i] \in Digits}) >= 8
            Valid(raw) == normalizePhone(raw) # NullStr /\ Digits8(normalizePhone(raw))
        IN  /\ last'.op = "isValidPhone" => (last'.valid <=> Valid(last'.phone))
            /\ last'.op \in {"POST /otp", "POST /otp/verify"}
                 /\ last'.message \notin {"Phone required", "Phone and code required",
                                          "Invalid phone format"}
                 => Valid(last'.phone)
            /\ last'.op = "GET /bills/by-customer" => (last'.code # 400 <=> Valid(last'.phone))
            /\ last'.op = "POST /bills" /\ "phone" \in DOMAIN last' /\ last'.code # 400
                 /\ PhonePresent(last'.phone)
                 => Valid(last'.phone)
            /\ last'.op = "POST /customers" /\ last'.code # 400 => Valid(last'.phone)]_vars

\* a seven-digit local number was accepted thanks to the country code, a bill
\* is stored under the normalized form of a spaced number, and the by-customer
\* query finds it through the spaced spelling
C16_SevenDigitsAcceptedBillFound ==
  /\ normalizePhone(SevenDigits) \in DOMAIN otps
  /\ \E i \in DOMAIN bills : bills[i].customerPhone = Plus1455
  /\ last.op = "GET /bills/by-customer" /\ last.code = 200
  /\ last.phone = Spaced1455 /\ last.list # <<>>


(* Claims about identifiers and stored records.                            *)
\* C17: no two orders in the store have the same id, whatever the sequence of
\* POST /orders requests, two requests within one clock millisecond included.
C17_OrderIdsUnique ==
  \A i, j \in DOMAIN orders : i # j => orders[i].id # orders[j].id

\* C18: no two stored bills share an id and no bill id equals an order id,
\* whatever the sequence of POST /bills and POST /orders requests, requests
\* within one clock millisecond included.
C18_BillIdsUniqueAndNotOrderIds ==
  /\ \A i, j \in DOMAIN bills : i # j => bills[i].id # bills[j].id
  /\ \A i \in DOMAIN bills, j \in DOMAIN orders : bills[i].id # orders[j].id


\* C19: once POST /bills has stored a bill, no later operation changes any
\* field of it, in memory or in the persistent store.
C19_StoredBillsNeverChange ==
  [][/\ \A i \in DOMAIN bills : i \in DOMAIN bills' /\ bills'[i] = bills[i]
     /\ \A id \in DOMAIN mongoBills :
          id \in DOMAIN mongoBills' /\ mongoBills'[id] = mongoBills[id]]_vars


\* C20: the updatedAt of an order, in memory and in the persistent store,
\* changes only in a PATCH that supplies a status, to that request's current
\* time, and never decreases; a PATCH without a status leaves it unchanged.
C20_UpdatedAtOnlyWithStatus ==
  [][/\ \A i \in DOMAIN orders :
       orders'[i].updatedAt # orders[i].updatedAt =>
         /\ orders'[i].updatedAt >= orders[i].updatedAt
         /\ \/ \E id \in PatchIds, status \in PatchStatuses \ {""} :
                 PatchOrders(id, status) /\ orders'[i].updatedAt = clock
            \/ \E op \in pending :
                 /\ op.kind = "patch" /\ op.status # ""
                 /\ PatchDeliver(op) /\ orders'[i].updatedAt = op.now
     /\ \A id \in DOMAIN mongoOrders :
          id \in DOMAIN mongoOrders' /\ mongoOrders'[id].updatedAt # mongoOrders[id].updatedAt =>
            /\ mongoOrders'[id].updatedAt >= mongoOrders[id].updatedAt
            /\ \E op \in pending :
                 /\ op.kind = "patch" /\ op.status # ""
                 /\ mongoOrders'[id].updatedAt = op.now]_vars


(* Claims about PATCH /orders/:id.                                         *)
\* C21: a PATCH for an id that matches no stored order answers 404 and changes
\* no order; a PATCH for an id that matches a stored order answers success
\* with that order carrying the requested status, and changes no other order.
C21_PatchAnswersForItsOrder ==
  [][last'.op = "PATCH /orders/:id" =>
       /\ \A i \in DOMAIN orders : orders[i].id # last'.id => orders'[i] = orders[i]
       /\ last'.code # 0 =>
            /\ last'.code = 404 <=> findIndex(orders, last'.id) = 0
            /\ last'.code = 404 => orders' = orders
            /\ last'.code = 200 /\ last'.given # "" =>
                 /\ last'.order.id = last'.id
                 /\ last'.order.status = last'.given]_vars


\* C22: PATCH /orders/:id does not validate the requested status: for an
\* existing order every non-empty status, one outside the five lifecycle
\* states or one the transition table does not allow included, is written as
\* the order's status by the handler, and the request is not refused.
C22_AnyStatusWritten ==
  [][last'.op = "PATCH /orders/:id" /\ last'.given # "" /\ findIndex(orders, last'.id) # 0 =>
       /\ last'.code # 404
       /\ (last'.code = 0 \/ ~useMongo) =>
            orders'[findIndex(orders, last'.id)].status = last'.given]_vars

\* an order was answered with the status CANCELLED, which is none of the five
\* lifecycle states
C22_UnknownStatusStored ==
  /\ last.op = "PATCH /orders/:id" /\ last.code = 200 /\ last.given = "CANCELLED"
  /\ last.order.status = "CANCELLED"
  /\ orders[findIndex(orders, last.id)].status = "CANCELLED"


\* C23: PATCH requests with different statuses for the same stored order, in
\* flight together: none is refused, each answers success, and every write of
\* the order's status, in memory and in the persistent store, sets exactly the
\* status of the request that performs the write, so the final status is that
\* of the request whose write was applied last.
C23_LastWriteWins ==
  [][/\ last'.op = "PATCH /orders/:id" /\ findIndex(orders, last'.id) # 0 =>
          last'.code \in {0, 200}
     /\ \A i \in DOMAIN orders :
          orders'[i].status # orders[i].status =>
            /\ last'.op = "PATCH /orders/:id" /\ last'.id = orders[i].id
            /\ last'.given # "" => orders'[i].status = last'.given
     /\ \A id \in DOMAIN mongoOrders :
          /\ last'.op = "store findOneAndUpdate"
          /\ mongoOrders'[id].status # mongoOrders[id].status
          => \E op \in pending :
               /\ op.kind = "patch" /\ op.stage = "sent" /\ op.id = id
               /\ op.status = mongoOrders'[id].status
               /\ op \notin pending']_vars

\* two requests for the same stored order, asking for different statuses, are
\* suspended together after the store applied both updates
C23_TwoWritesApplied ==
  \E a, b \in pending :
    /\ a.kind = "patch" /\ b.kind = "patch" /\ a.id = b.id
    /\ a.status = "PREPARING" /\ b.status = "READY"
    /\ a.stage = "returned" /\ b.stage = "returned"
    /\ a.result.t = "doc" /\ b.result.t = "doc"
    /\ findIndex(orders, a.id) # 0
    /\ mongoOrders[a.id].status \in {"PREPARING", "READY"}


(* Claims about the daily report.                                          *)
\* C24: the daily report for a date is computed over exactly the stored bills
\* whose createdAt lies between 00:00:00 and 23:59:59 of the date, both ends
\* included: totalOrders is their number, totalRevenue the sum of their totals
\* and totalCustomers the number of distinct customerName values among them.
C24_ReportTotals ==
  last.op = "GET /reports/daily" =>
    LET r == last.report
        D == {i \in DOMAIN bills :
                /\ bills[i].createdAt >= r.date * 86400000
                /\ bills[i].createdAt <= r.date * 86400000 + 86399000}
        sum[k \in 0..Len(bills)] ==
          IF k = 0 THEN 0 ELSE sum[k - 1] + (IF k \in D THEN bills[k].total ELSE 0)
    IN  /\ r.totalOrders = Cardinality(D)
        /\ r.totalRevenue = sum[Len(bills)]
        /\ r.totalCustomers = Cardinality({bills[i].customerName : i \in D})

\* two bills of the day carry the same customer name and a report counts two
\* orders and one customer
C24_SameNameCountsOnce ==
  /\ last.op = "GET /reports/daily"
  /\ last.report.totalOrders = 2 /\ last.report.totalCustomers = 1
  /\ last.report.totalRevenue = 273


\* C25: averageOrderValue is totalRevenue divided by totalOrders when the
\* date has at least one bill and 0 when it has none; totals 161 and 43 give
\* totalOrders 2, totalRevenue 204 and averageOrderValue 102; a date without
\* bills is answered like any other.
C25_AverageOrderValue ==
  last.op = "GET /reports/daily" =>
    LET r == last.report
    IN  /\ last.code = 200
        /\ r.averageOrderValue.den > 0
        /\ r.totalOrders = 0 => r.averageOrderValue.num = 0
        /\ r.totalOrders > 0 =>
             r.averageOrderValue.num * r.totalOrders = r.totalRevenue * r.averageOrderValue.den
        /\ r.totalOrders = 2 /\ r.totalRevenue = 204
           => r.averageOrderValue = [num |-> 102, den |-> 1]

\* the report of a day with the bills of 161 and 43
C25_ExampleAverage ==
  /\ last.op = "GET /reports/daily"
  /\ \E i, j \in DOMAIN bills : bills[i].total = 161 /\ bills[j].total = 43
  /\ last.report.totalOrders = 2 /\ last.report.totalRevenue = 204
  /\ last.report.averageOrderValue = [num |-> 102, den |-> 1]


\* C26: topItems lists the groups of line items in descending order of summed
\* quantity, at most 10 of them, and groups of equal quantity in the order in
\* which they were first encountered in the bills, whatever the item ids.
C26_TopItemsTiesByFirstEncounter ==
  last.op = "GET /reports/daily" =>
    LET top == last.report.topItems
        its == AllItems(dayBills(bills, last.report.date))
        first(name) == CHOOSE k \in DOMAIN its :
                         its[k].name = name /\ \A m \in 1..(k - 1) : its[m].name # name
    IN  /\ Len(top) <= 10
        /\ \A i, j \in DOMAIN top :
             i < j =>
               /\ top[i].quantity >= top[j].quantity
               /\ top[i].quantity = top[j].quantity => first(top[i].name) < first(top[j].name)


\* C27: hourlyBreakdown has exactly 24 entries, for the hours 00 to 23; entry h
\* reports the number and the summed totals of the stored bills whose createdAt
\* falls in hour h of the date, and the counts and revenues of the entries sum
\* to totalOrders and totalRevenue.
C27_HourlyBucketsCoverTheDay ==
  last.op = "GET /reports/daily" =>
    LET r  == last.report
        hb == r.hourlyBreakdown
        InHour(i, h) == /\ bills[i].createdAt >= r.date * 86400000 + h * 3600000
                        /\ bills[i].createdAt < r.date * 86400000 + (h + 1) * 3600000
        revenueOf(h) ==
          LET acc[k \in 0..Len(bills)] ==
                IF k = 0 THEN 0
                ELSE acc[k - 1] + (IF InHour(k, h) THEN bills[k].total ELSE 0)
          IN  acc[Len(bills)]
        counted[k \in 0..24] == IF k = 0 THEN 0 ELSE counted[k - 1] + hb[k].orders
        earned[k \in 0..24] == IF k = 0 THEN 0 ELSE earned[k - 1] + hb[k].revenue
    IN  /\ Len(hb) = 24
        /\ \A k \in 1..24 :
             /\ hb[k].hour = k - 1
             /\ hb[k].orders = Cardinality({i \in DOMAIN bills : InHour(i, k - 1)})
             /\ hb[k].revenue = revenueOf(k - 1)
        /\ counted[24] = r.totalOrders
        /\ earned[24] = r.totalRevenue


\* C28: GET /reports/daily is a pure read: it leaves the bills, the orders and
\* the OTP table, in memory and in the persistent store, as they are, and a
\* report for the date of the previous report, with no POST /bills in between,
\* is the same report, however much time has passed.
C28_ReportIsPureRead ==
  [][\A date \in ReportDates :
       GetDailyReport(date) =>
         /\ bills' = bills /\ orders' = orders /\ otps' = otps
         /\ mongoBills' = mongoBills /\ mongoOrders' = mongoOrders
         /\ mongoCustomers' = mongoCustomers
         /\ (last.op = "GET /reports/daily" /\ last.report.date = date)
            => last'.report = last.report]_vars

\* a report of a day with a bill is repeated after time has passed, with an
\* order and an OTP record in the stores
C28_ReportRepeatedLater ==
  /\ last.op = "GET /reports/daily" /\ last.report.totalOrders > 0
  /\ clock > bills[Len(bills)].createdAt
  /\ orders # <<>> /\ DOMAIN otps # {}


(* Claims about the persistent store.                                      *)
\* C29: a failure of the persistent store during a request is not surfaced to
\* the caller: when the store call of the bills-by-customer listing or of the
\* customer upsert fails, the request completes with the result of the
\* in-memory operation.
C29_StoreFailureNotSurfaced ==
  [][\A op \in pending :
       /\ GetBillsByCustomerResume(op) /\ op.result = "error" =>
            /\ last'.code = 200
            /\ last'.list = BillsOfCustomer(bills, op.norm)
       /\ PostCustomersResume(op) /\ op.result = "error" => last'.code = 200]_vars

\* C30: when persistence is required, the server listens only if the
\* connection succeeded; a connection that failed, like one that did not
\* complete within the wait, leaves no listening server.
C30_ListeningOnlyIfConnected ==
  startup.required /\ startup.server = "listening" => startup.connect = "ok" /\ useMongo

-----------------------------------------------------------------------------
(* Claims about the notification senders.                                  *)

SendFunctions == {"sendWhatsAppMessage", "sendWhatsappMessage", "sendSmsMessage"}

\* C31: every call of sendWhatsAppMessage, sendWhatsappMessage and
\* sendSmsMessage ends by returning, never by raising, and the value it returns
\* has a boolean success flag: when the sender is not configured, when the
\* credits are exhausted, when the provider answers with an error and when
\* the provider call throws.
C31_SendersReturnSuccessFlag ==
  /\ last.op \in SendFunctions =>
       ~last.result.raised /\ last.result.value.success \in BOOLEAN
  /\ \A configured \in BOOLEAN, outcome \in TwilioOutcomes :
       LET r == sendWhatsAppMessage(configured, outcome)
       IN  ~r.raised /\ r.value.success \in BOOLEAN
C31_NetworkExceptionReturned ==
  /\ last.op = "sendSmsMessage" /\ last.message = "network exception"
  /\ last.called
  /\ last.result = Returned([success |-> FALSE, message |-> "fetch failed"])

\* C37: the credit counters never exceed their limits: used <= credits in
\* every state of both service modules; a send attempted with used >= credits
\* fails with "Credits exhausted" without calling the provider; used grows
\* by exactly one on a successful send and not at all on a failed one, also
\* with several sends in flight.
C37_UsedNeverExceedsCredits ==
  /\ [](/\ whatsappSettings.used <= whatsappSettings.credits
        /\ smsSettings.used <= smsSettings.credits)
  /\ [][/\ ~NotConfigured(whatsappSettings) /\ CreditsExhausted(whatsappSettings) =>
             /\ sending'.whatsapp <= sending.whatsapp
             /\ last'.op = "sendWhatsappMessage" /\ ~last'.called
                  => last'.message = "Credits exhausted" /\ ~last'.result.value.success
        /\ ~NotConfigured(smsSettings) /\ CreditsExhausted(smsSettings) =>
             /\ sending'.sms <= sending.sms
             /\ last'.op = "sendSmsMessage" /\ ~last'.called
                  => last'.message = "Credits exhausted" /\ ~last'.result.value.success
        /\ last'.op = "sendWhatsappMessage" =>
             whatsappSettings'.used =
               whatsappSettings.used + (IF last'.result.value.success THEN 1 ELSE 0)
        /\ last'.op = "sendSmsMessage" =>
             smsSettings'.used =
               smsSettings.used + (IF last'.result.value.success THEN 1 ELSE 0)]_vars

-----------------------------------------------------------------------------
(* Claims about the OTP code in production.                                *)

\* C32: with NODE_ENV 'production' and DEBUG_OTPS other than 'true', the
\* response of POST /otp has no code field and is the same whatever code was
\* generated, and GET /debug/otps is not a route (404).
C32_CodeNotInProductionResponses ==
  [][procEnv.NODE_ENV = "production" /\ procEnv.DEBUG_OTPS # "true" =>
       /\ last'.op = "POST /otp" /\ last'.code = 200 =>
            /\ "code" \notin DOMAIN last'.body
            /\ \A n \in CodeSamples :
                 last'.body = OtpResponseBody(procEnv, normalizePhone(last'.phone), ToStr(n))
       /\ last'.op = "GET /debug/otps" => last'.code = 404]_vars
C32_ProductionOtpIssued ==
  /\ procEnv = [NODE_ENV |-> "production", DEBUG_OTPS |-> "false"]
  /\ last.op = "POST /otp" /\ last.code = 200
  /\ last.issued = ToStr(MaxCode)
  /\ otps[normalizePhone(Local0455)].code = ToStr(MaxCode)
  /\ last.body = [success |-> TRUE, phone |-> normalizePhone(Local0455)]

-----------------------------------------------------------------------------
(* Claims about the port the server binds.                                 *)

\* the lowest port of basePort .. basePort + maxRetries that is not in use
LowestFree(taken) == CHOOSE p \in TryPorts \ taken : \A q \in TryPorts \ taken : p <= q

\* C33 as stated, with two ways to end: startServer ends: it listens on the
\* lowest port of basePort .. basePort + 10 that no other process holds, having
\* tried the ports in increasing order and moved on only when a port was in
\* use, or the process exits, when all 11 ports are in use or a listen attempt
\* fails with another error; it listens on at most one port and tries no port
\* past basePort + 10.
C33_ListensOnLowestFreePortOrExits ==
  /\ [](/\ Cardinality(startup.ports) <= 1
        /\ startup.attempt \in 0 .. maxRetries
        /\ \A i \in 0 .. startup.attempt - 1 : tryPort(i) \in startup.inUse
        /\ startup.server = "listening" =>
             /\ TryPorts \ startup.inUse # {}
             /\ startup.ports = {LowestFree(startup.inUse)}
        /\ startup.server = "exited" =>
             /\ startup.ports = {}
             /\ \/ last.message = "Failed to start server"
                \/ last.message = "Unable to bind server" /\ TryPorts \subseteq startup.inUse)
  /\ [][/\ startup'.attempt \in {startup.attempt, startup.attempt + 1}
        /\ startup'.attempt # startup.attempt => tryPort(startup.attempt) \in startup.inUse
        /\ startup.server \in {"listening", "exited"} => startup' = startup]_vars
  /\ <>(startup.server \in {"listening", "exited"})

\* C33: startServer ends in one of three ways. With USE_MONGO "true", when the
\* connection attempt has not settled after the wait of 5 seconds, the process
\* exits before any port is tried. Otherwise it listens on the lowest port of
\* basePort .. basePort + 10 that no other process holds, having tried the
\* ports in increasing order and moved on only when a port was in use, or the
\* process exits, when all 11 ports are in use or a listen attempt fails with
\* another error. It listens on at most one port, tries no port past
\* basePort + 10, and tries no port while it waits for the store.
C33_ThreeWaysToEnd ==
  /\ [](/\ Cardinality(startup.ports) <= 1
        /\ startup.attempt \in 0 .. maxRetries
        /\ \A i \in 0 .. startup.attempt - 1 : tryPort(i) \in startup.inUse
        /\ startup.server = "listening" =>
             /\ TryPorts \ startup.inUse # {}
             /\ startup.ports = {LowestFree(startup.inUse)}
             /\ startup.required => startup.connect \in {"ok", "failed"}
        /\ startup.server = "exited" =>
             /\ startup.ports = {}
             /\ \/ last.message = "Failed to start server"
                \/ last.message = "Unable to bind server" /\ TryPorts \subseteq startup.inUse
                \/ /\ last.message = "exit" /\ startup.required
                   /\ startup.connect = "pending" /\ startup.waited = WaitSeconds
                   /\ startup.attempt = 0)
  /\ [][/\ startup'.attempt \in {startup.attempt, startup.attempt + 1}
        /\ startup'.attempt # startup.attempt
             => /\ tryPort(startup.attempt) \in startup.inUse
                /\ startup.required => startup.connect \in {"ok", "failed"}
        /\ startup.server \in {"listening", "exited"} => startup' = startup]_vars
  /\ <>(startup.server \in {"listening", "exited"})

\* startServer waited for the store, whose connection failed, found three of
\* the first four ports in use and listens on the free one
C33_ListeningAfterBusyPorts ==
  /\ startup.required /\ startup.connect = "failed" /\ startup.waited > 0
  /\ startup.inUse = {basePort, basePort + 1, basePort + 3}
  /\ startup.server = "listening" /\ startup.ports = {basePort + 2}
  /\ startup.attempt = 2

-----------------------------------------------------------------------------
(* Claims about bill generation from the kitchen dashboard.                *)

\* C34: when generateBillForOrder reports success for an order, a bill
\* generated for that order is stored and the server holds the order with
\* status COMPLETED; when it reports failure, the call stored no bill and
\* left the order's status as it was.
C34_SuccessMeansBilledAndCompleted ==
  [][last'.op = "generateBillForOrder" =>
       LET id  == last'.id
           idx == findIndex(orders', id)
       IN  IF last'.code = 200
           THEN /\ \E b \in DOMAIN billedAt' : billedAt'[b].order = id
                /\ idx # 0 /\ orders'[idx].status = "COMPLETED"
           ELSE ~last'.stored]_vars

\* C35: the dashboards store at most one bill per order: whatever the order
\* of clicks on the two "Generate Bill" controls, of the confirmation dialog
\* and of the polls of several dashboards, no two stored bills were generated
\* from the same order.
C35_OneBillPerOrder ==
  \A i, j \in DOMAIN billedAt :
    i # j /\ billedAt[i].order # NoOrderId => billedAt[i].order # billedAt[j].order

\* C39: the subtotal, tax, service and total the confirmation dialog shows
\* for an order are those of the bill the server generates when the dialog is
\* confirmed, for every order POST /orders can create.
C39_PreviewEqualsBill ==
  [][\A i \in DOMAIN gen :
       gen[i].stage = "post" /\ gen[i].via = "dialog" /\ Len(bills') = Len(bills) + 1
         => BillAmounts(bills'[Len(bills')]) = BillPreview(gen[i].order)]_vars

\* C36: with the persistent store enabled, once no PATCH request for a stored
\* order is in flight any more, the in-memory order and the persisted order
\* have the same status, in whatever order the store applied the updates and
\* delivered its answers.
C36_MemoryAgreesWithStore ==
  useMongo /\ pending = {} =>
    \A i \in DOMAIN orders :
      orders[i].id \in DOMAIN mongoOrders =>
        orders[i].status = mongoOrders[orders[i].id].status

\* the dates whose windows can hold a bill created at one of ReportInstants
\* or at the initial Date.now()
CalendarDates == 0 .. 2

\* C38: the daily reports partition the stored bills by date: every stored
\* bill, whatever the millisecond of its createdAt (the last second of a day
\* included), is among the bills of the report of exactly one date.
C38_EveryBillInExactlyOneReport ==
  \A i \in DOMAIN bills :
    Cardinality({d \in CalendarDates :
                   \E k \in DOMAIN dayBills(bills, d) : dayBills(bills, d)[k] = bills[i]}) = 1

====
